---- MODULE Spec2Model ----
(***************************************************************************)
(* ZapLinkWeb: the DVR recording scheduler (src/src/scheduler.c), the      *)
(* timer/recording persistence it drives (src/src/db.c), the web API       *)
(* handlers that reach both (src/src/web.c), backend discovery             *)
(* (src/src/discovery.c) and the encoder relay with its argument builder   *)
(* (src/src/transcode.c).                                                  *)
(*                                                                         *)
(* Spec         the scheduler, the timer API, stop and status requests     *)
(* SpecDispatch discovery and the /stream/ and /transcode/ dispatcher      *)
(* SpecRelay    two concurrent transcode_source activations                *)
(* SpecDelete   the recording-deletion handler                             *)
(* SpecArgs     build_ffmpeg_args over all configurations                  *)
(* SpecParse    the path segments of /transcode/                           *)
(* SpecPlay     /api/play/ and the relay it invokes                        *)
(* SpecSchedDelete  the scheduler with recording deletions                 *)
(* SpecTitled   the scheduler with the timers' titles drawn                *)
(* SpecWaits    active_mutex and the waits for a child, with fairness      *)
(*                                                                         *)
(* Time is counted in poll intervals: one unit of `clock` is one           *)
(* POLL_INTERVAL, and timer instants are drawn from the same scale.        *)
(***************************************************************************)
EXTENDS Integers, Sequences, FiniteSets, TLC

\* Capacity of the slot table. The program's value is 16 (scheduler.c:50);
\* the model keeps the table small so that "more timers due than slots" is
\* reached within the other bounds.
MAX_ACTIVE_RECORDINGS == 2
\* Largest timer rowid the timers table hands out.
MaxTimerId == 3
\* Last instant of the wall clock.
MaxTime == 2
\* Largest pid fork() hands out; fork fails beyond it.
MaxPid == 3
\* Largest recording rowid; the insert fails beyond it.
MaxRecId == 3
\* Number of API requests (add timer, delete timer, stop recording, status)
\* served.
MaxRequests == 3
\* Number of 8192-byte chunks an encoder writes to its pipe before it ends.
MaxChunks == 2

VARIABLES
    clock,              \* time(NULL), in poll intervals
    db_timers,          \* table "timers": set of [id, start_time, end_time]
    db_recordings,      \* table "recordings": set of [id, end_time]
    procs,              \* pid -> "none" | "running" | "exited" (zombie) | "reaped"
    termed,             \* pids that have been sent SIGTERM
    active_recordings,  \* slot index -> ActiveRecording
    pc,                 \* position of scheduler_thread
    now_ms,             \* scheduler_thread: now_ms of the current cycle
    timers,             \* scheduler_thread: result array of db_get_pending_timers
    i,                  \* scheduler_thread: index into timers (0-based)
    found,              \* return value of the last stop_recording call (-1: none yet)
    stopped,            \* ids of the timers in the table whose recording a stop call ended
    titles,             \* timer id -> title the client gives the timer added with that id
    active_mutex,       \* scheduler.c: holder of active_mutex while it waits for a child
    calls,              \* caller -> a stop, count or ids call on its way through active_mutex
    requests,           \* number of API requests served so far
    events,             \* scheduler_thread: what the current poll cycle has done
    status,             \* /api/status handler: position and the accessors' results
    core_url,           \* discovery.c: static char core_url[256]
    copying,            \* discovery.c: the URL a strncpy into core_url is writing
    relay,              \* request -> client_handler/transcode_source activation
    child,              \* pid -> encoder child forked by transcode_source
    pipes,              \* request -> chunks in the pipe, oldest first
    sink,               \* request -> "open" | "closed": the client socket's peer
    signals,            \* SIGTERMs sent by relays: set of [by, pid]
    files,              \* recording ids whose backing file is on disk
    del,                \* the last DELETE /api/recordings/<id>: id and status sent
    app_config,         \* config.c: AppConfig app_config (backend, codec)
    call_first,         \* the first build_ffmpeg_args call: input, config, argv
    call_last,          \* the latest build_ffmpeg_args call: input, config, argv
    req                 \* the latest /transcode/ or /api/play/ request as parsed

\* The scheduler, its tables, its processes and the API request count.
schedVars == <<clock, db_timers, db_recordings, procs, termed, active_recordings,
               pc, now_ms, timers, i, found, stopped, titles, active_mutex, calls, requests, events>>

\* Discovery and the stream dispatcher with its relays.
relayVars == <<core_url, copying, relay, child, pipes, sink, signals>>

\* The recordings directory and the recording-deletion handler.
delVars == <<files, del>>

\* The runtime configuration and the calls of the argument builder.
argVars == <<app_config, call_first, call_last>>

\* The path-segment parsers of the /transcode/ and /api/play/ handlers.
routeVars == <<req>>

\* The state outside the scheduler, its tables and its processes.
nonSched == <<status, relayVars, delVars, argVars, routeVars>>

\* The state outside discovery, the dispatcher and the relays.
nonRelay == <<schedVars, status, delVars, argVars, routeVars>>

vars == <<clock, db_timers, db_recordings, procs, termed, active_recordings,
          pc, now_ms, timers, i, found, stopped, titles, active_mutex, calls, requests, events, nonSched>>

Slots == 0 .. (MAX_ACTIVE_RECORDINGS - 1)
Pids == 1 .. MaxPid

\* typedef struct ActiveRecording, zeroed by start_scheduler's memset (the
\* output path is written once with the slot and never read back).
EmptySlot == [timer_id |-> 0, recording_id |-> 0, pid |-> 0, end_time |-> 0]

Max(S) == CHOOSE x \in S : \A y \in S : y <= x
Min(S) == CHOOSE x \in S : \A y \in S : x <= y

\* SQLite rowid of the next inserted row: one more than the largest rowid
\* in the table, 1 for an empty table.
NextRowId(table) == IF table = {} THEN 1 ELSE Max({r.id : r \in table}) + 1

\* The rows of a result set as an array, in rowid order.
RECURSIVE RowsById(_)
RowsById(S) ==
    IF S = {} THEN <<>>
    ELSE LET r == CHOOSE x \in S : \A y \in S : x.id <= y.id
         IN <<r>> \o RowsById(S \ {r})

\* db_get_pending_timers: WHERE start_time <= now AND end_time > now. Of a
\* Timer the scheduler reads id and end_time (title and channel_num only name
\* the output file and the stream).
PendingTimers(now) ==
    RowsById({[id |-> t.id, end_time |-> t.end_time] :
                 t \in {r \in db_timers : r.start_time <= now /\ r.end_time > now}})

\* db_delete_timer: DELETE FROM timers WHERE id = <id>
DbDeleteTimer(table, id) == {t \in table : t.id # id}

\* db_add_recording_entry(title, channel, start, end, path): the new row.
DbAddRecordingEntry(table, end) ==
    table \cup {[id |-> NextRowId(table), end_time |-> end]}

\* A timer title is a string, taken as the sequence of its characters.
\* Every timer is called "t" unless a specification draws the titles.
DefaultTitles == [k \in 1 .. MaxTimerId |-> <<"t">>]

\* The web threads that call stop_recording, get_active_recording_count and
\* get_active_recording_ids, and a thread that has made no call.
Callers == {"web1", "web2"}

IdleCall == [pc |-> "idle", op |-> "none", arg |-> 0]

\* /api/status before its first request: no accessor has returned yet.
StatusIdle == [pc |-> "idle", count |-> 0, ids |-> <<>>, is_null |-> TRUE, active |-> 0]

\* The two concurrent requests of the dispatcher, each on its own
\* connection and thread, and the pids fork() gives their encoder children.
Reqs == {1, 2}
RelayPids == {1, 2}

\* core_url before discovery: the empty string (discovery.c:39).
EmptyUrl == [proto |-> "none", localhost |-> FALSE]

\* What a reader finds in core_url while a strncpy is writing it: a non-empty
\* string that is neither the old nor the new URL.
TornUrl == [proto |-> "torn", localhost |-> FALSE]

\* The URLs resolve_callback builds (lines 74-79): "http://[a]:port" for an
\* IPv6 address, "http://a:port" for an IPv4 one, which may be 127.0.0.1.
Urls == {[proto |-> "v6", localhost |-> FALSE],
         [proto |-> "v4", localhost |-> FALSE],
         [proto |-> "v4", localhost |-> TRUE]}

\* A connection no request has arrived on yet.
IdleRelay ==
    [pc |-> "idle", kind |-> "none", resp |-> 0, invoked |-> FALSE,
     src |-> EmptyUrl, pid |-> 0, fds |-> {}, buf |-> 0, headers |-> FALSE,
     sent |-> <<>>, wfail |-> FALSE, returned |-> FALSE, ret |-> 0]

\* A pid no encoder child has; wends are the requests whose pipe write end
\* the child holds.
NoChild == [state |-> "none", exec |-> "none", out |-> 0, wends |-> {}]

\* The backend address resolve_callback has stored once it has resolved
\* ZapLinkCore on this host.
LocalhostUrl == [proto |-> "v4", localhost |-> TRUE]

RelayInit ==
    /\ core_url = EmptyUrl
    /\ copying = EmptyUrl
    /\ relay = [r \in Reqs |-> IdleRelay]
    /\ child = [p \in RelayPids |-> NoChild]
    /\ pipes = [r \in Reqs |-> <<>>]
    /\ sink = [r \in Reqs |-> "open"]
    /\ signals = {}

SchedInit ==
    /\ clock = 0
    /\ db_timers = {}
    /\ db_recordings = {}
    /\ procs = [p \in Pids |-> "none"]
    /\ termed = {}
    /\ active_recordings = [j \in Slots |-> EmptySlot]
    /\ pc = "poll"
    /\ now_ms = 0
    /\ timers = <<>>
    /\ i = 0
    /\ found = -1
    /\ stopped = {}
    /\ titles = DefaultTitles
    /\ active_mutex = "free"
    /\ calls = [c \in Callers |-> IdleCall]
    /\ requests = 0
    /\ events = <<>>
    /\ status = StatusIdle

\* No recording has been made and no deletion requested.
DelInit ==
    /\ files = {}
    /\ del = [id |-> 0, status |-> 0]

\* No build_ffmpeg_args call made; `again` marks a call that is not the
\* first.
NoCall == [made |-> FALSE, again |-> FALSE, input |-> "", config |-> <<>>, argv |-> <<>>]

\* config_load's defaults (config.c:22-23) and no argument vector built.
ArgInit ==
    /\ app_config = [backend |-> "software", codec |-> "h264"]
    /\ call_first = NoCall
    /\ call_last = NoCall

\* No /transcode/ or /api/play/ request has been parsed.
NoReq == [kind |-> "none", r |-> 0, path |-> <<>>, core |-> EmptyUrl,
          tc |-> <<>>, channel_id |-> <<>>, id |-> 0, found |-> FALSE]

RouteInit == req = NoReq

\* The state after main has started the scheduler, discovery and the web
\* server.
Init == SchedInit /\ RelayInit /\ DelInit /\ ArgInit /\ RouteInit

\* The same with the backend already discovered on this host.
InitDiscovered ==
    /\ SchedInit
    /\ core_url = LocalhostUrl
    /\ copying = EmptyUrl
    /\ relay = [r \in Reqs |-> IdleRelay]
    /\ child = [p \in RelayPids |-> NoChild]
    /\ pipes = [r \in Reqs |-> <<>>]
    /\ sink = [r \in Reqs |-> "open"]
    /\ signals = {}
    /\ DelInit
    /\ ArgInit
    /\ RouteInit

-----------------------------------------------------------------------------
(* scheduler_thread *)

\* The timer the due-timer scan is looking at: timers[i].
CurTimer == timers[i + 1]

\* End of one pass of for (i = 0; i < count; i++); after the last timer the
\* array is freed (line 153) and the slot scan follows.
NextTimer ==
    IF i + 1 < Len(timers)
       THEN /\ i' = i + 1
            /\ timers' = timers
            /\ pc' = "due"
       ELSE /\ i' = 0
            /\ timers' = <<>>
            /\ pc' = "scan"

\* One thing the scheduler did in the current poll cycle: k names it, n is
\* the timer id, recording id, pid or slot index it was done with.
Event(k, n) == [k |-> k, n |-> n]

\* A failed query that ends the cycle: the loop goes to its sleep at once.
SchedPoll_FailureEndsCycle ==
    /\ pc = "poll"
    /\ now_ms' = clock
    /\ \/ /\ timers' = PendingTimers(clock)
          /\ pc' = IF Len(PendingTimers(clock)) > 0 THEN "due" ELSE "scan"
          /\ events' = <<>>
       \/ /\ timers' = <<>>
          /\ pc' = "sleep"
          /\ events' = <<Event("query_failed", 0)>>
    /\ UNCHANGED <<clock, db_timers, db_recordings, procs, termed,
                   active_recordings, i, found, stopped, titles, active_mutex, calls, requests>>
    /\ UNCHANGED nonSched

\* Lines 63-69: read the clock and query the due timers. A failed query
\* skips the due-timer scan.
SchedPoll ==
    /\ pc = "poll"
    /\ now_ms' = clock
    /\ \/ /\ timers' = PendingTimers(clock)
          /\ pc' = IF Len(PendingTimers(clock)) > 0 THEN "due" ELSE "scan"
          /\ events' = <<>>
       \/ /\ timers' = <<>>
          /\ pc' = "scan"
          /\ events' = <<Event("query_failed", 0)>>
    /\ UNCHANGED <<clock, db_timers, db_recordings, procs, termed,
                   active_recordings, i, found, stopped, titles, active_mutex, calls, requests>>
    /\ UNCHANGED nonSched

\* The test of line 75 reading recording_id in place of timer_id.
IsActive_WrongField(ar, id) == \E j \in Slots : ar[j].recording_id = id

\* Lines 72-80: a slot whose timer_id equals the timer's id, occupied or not.
IsActive(ar, id) == \E j \in Slots : ar[j].timer_id = id

FreePids == {p \in Pids : procs[p] = "none"}

FreeSlots(ar) == {j \in Slots : ar[j].pid = 0}

\* A table that grows by one slot when none is free.
Populate_Grow(ar, t, rid, p) ==
    LET slot == [timer_id |-> t.id, recording_id |-> rid, pid |-> p,
                 end_time |-> t.end_time]
    IN IF FreeSlots(ar) = {}
          THEN ar @@ (Max(DOMAIN ar) + 1 :> slot)
          ELSE [ar EXCEPT ![Min(FreeSlots(ar))] = slot]

\* Lines 138-149: the first slot with pid == 0 takes the recording; with no
\* such slot the loop ends without storing anything.
Populate(ar, t, rid, p) ==
    IF FreeSlots(ar) = {} THEN ar
    ELSE [ar EXCEPT ![Min(FreeSlots(ar))] =
            [timer_id |-> t.id, recording_id |-> rid, pid |-> p, end_time |-> t.end_time]]

\* A start that forks the encoder first and inserts the Recording entry
\* after it; a failed insert leaves the encoder running.
StartRecording_ForkFirst(t) ==
    \/ /\ NextRowId(db_recordings) <= MaxRecId
       /\ FreePids # {}
       /\ db_recordings' = DbAddRecordingEntry(db_recordings, 0)
       /\ procs' = [procs EXCEPT ![Min(FreePids)] = "running"]
       /\ active_recordings' =
             Populate(active_recordings, t, NextRowId(db_recordings), Min(FreePids))
       /\ events' = events \o <<Event("timer", t.id),
                                 Event("fork", Min(FreePids)),
                                 Event("insert", NextRowId(db_recordings))>>
                           \o (IF FreeSlots(active_recordings) = {} THEN <<>>
                               ELSE <<Event("slot", Min(FreeSlots(active_recordings)))>>)
    \/ /\ events' = events \o <<Event("timer", t.id), Event("fork_failed", t.id)>>
       /\ UNCHANGED <<db_recordings, procs, active_recordings>>
    \/ /\ FreePids # {}
       /\ procs' = [procs EXCEPT ![Min(FreePids)] = "running"]
       /\ events' = events \o <<Event("timer", t.id), Event("fork", Min(FreePids)),
                                 Event("insert_failed", t.id)>>
       /\ UNCHANGED <<db_recordings, active_recordings>>

\* Lines 82-150: start the recording of timer t. The Recording entry is
\* inserted first (lines 101-106; -1 and `continue` on failure), then the
\* encoder is forked (lines 108-136; nothing more happens when fork fails),
\* then the parent looks for a slot (lines 138-149).
StartRecording(t) ==
    \/ \* db_add_recording_entry succeeds, fork succeeds
       /\ NextRowId(db_recordings) <= MaxRecId
       /\ FreePids # {}
       /\ db_recordings' = DbAddRecordingEntry(db_recordings, 0)
       /\ procs' = [procs EXCEPT ![Min(FreePids)] = "running"]
       /\ active_recordings' =
             Populate(active_recordings, t, NextRowId(db_recordings), Min(FreePids))
       /\ events' = events \o <<Event("timer", t.id),
                                 Event("insert", NextRowId(db_recordings)),
                                 Event("fork", Min(FreePids))>>
                           \o (IF FreeSlots(active_recordings) = {} THEN <<>>
                               ELSE <<Event("slot", Min(FreeSlots(active_recordings)))>>)
    \/ \* db_add_recording_entry succeeds, fork fails
       /\ NextRowId(db_recordings) <= MaxRecId
       /\ db_recordings' = DbAddRecordingEntry(db_recordings, 0)
       /\ events' = events \o <<Event("timer", t.id),
                                 Event("insert", NextRowId(db_recordings)),
                                 Event("fork_failed", t.id)>>
       /\ UNCHANGED <<procs, active_recordings>>
    \/ \* db_add_recording_entry fails
       /\ events' = events \o <<Event("timer", t.id), Event("insert_failed", t.id)>>
       /\ UNCHANGED <<db_recordings, procs, active_recordings>>

\* Lines 70-152, one pass of the loop over the due timers. The steps of one
\* pass are taken together: stop_recording, the only other writer of the
\* slot table, writes pid alone, which the is_active test does not read, so
\* a stop between the test and the slot search acts like a stop before both.
SchedDueTimer ==
    /\ pc = "due"
    /\ IF IsActive(active_recordings, CurTimer.id)
          THEN /\ events' = Append(events, Event("timer", CurTimer.id))
               /\ UNCHANGED <<db_recordings, procs, active_recordings>>
          ELSE StartRecording(CurTimer)
    /\ NextTimer
    /\ UNCHANGED <<clock, db_timers, termed, now_ms, found, stopped, titles, active_mutex, calls, requests>>
    /\ UNCHANGED nonSched

\* The liveness branch of lines 178-182 without the reset of line 181.
ScanSlot_KeepsTimerId(st, j, now) ==
    IF st.ar[j].pid = 0 THEN st
    ELSE IF now >= st.ar[j].end_time
    THEN LET cleared == [st.ar EXCEPT ![j].pid = 0, ![j].timer_id = 0]
         IN [ar |-> cleared,
             procs |-> [st.procs EXCEPT ![st.ar[j].pid] = "reaped"],
             termed |-> st.termed \cup {st.ar[j].pid},
             db_timers |-> DbDeleteTimer(st.db_timers, cleared[j].timer_id)]
    ELSE IF st.procs[st.ar[j].pid] # "running"
    THEN [st EXCEPT !.ar = [st.ar EXCEPT ![j].pid = 0],
                    !.procs = [st.procs EXCEPT ![st.ar[j].pid] = "reaped"]]
    ELSE st

\* The test of line 161 as now_ms > end_time.
ScanSlot_StrictlyAfter(st, j, now) ==
    IF st.ar[j].pid = 0 THEN st
    ELSE IF now > st.ar[j].end_time
    THEN LET cleared == [st.ar EXCEPT ![j].pid = 0, ![j].timer_id = 0]
         IN [ar |-> cleared,
             procs |-> [st.procs EXCEPT ![st.ar[j].pid] = "reaped"],
             termed |-> st.termed \cup {st.ar[j].pid},
             db_timers |-> DbDeleteTimer(st.db_timers, cleared[j].timer_id)]
    ELSE IF st.procs[st.ar[j].pid] # "running"
    THEN [st EXCEPT !.ar = [st.ar EXCEPT ![j].pid = 0, ![j].timer_id = 0],
                    !.procs = [st.procs EXCEPT ![st.ar[j].pid] = "reaped"]]
    ELSE st

\* The liveness branch of lines 178-182 resetting timer_id but not pid.
ScanSlot_CrashKeepsPid(st, j, now) ==
    IF st.ar[j].pid = 0 THEN st
    ELSE IF now >= st.ar[j].end_time
    THEN LET cleared == [st.ar EXCEPT ![j].pid = 0, ![j].timer_id = 0]
         IN [ar |-> cleared,
             procs |-> [st.procs EXCEPT ![st.ar[j].pid] = "reaped"],
             termed |-> st.termed \cup {st.ar[j].pid},
             db_timers |-> DbDeleteTimer(st.db_timers, cleared[j].timer_id)]
    ELSE IF st.procs[st.ar[j].pid] # "running"
    THEN [st EXCEPT !.ar = [st.ar EXCEPT ![j].timer_id = 0],
                    !.procs = [st.procs EXCEPT ![st.ar[j].pid] = "reaped"]]
    ELSE st

\* The expiry branch of lines 161-174 resetting timer_id but not pid.
ScanSlot_ExpiryKeepsPid(st, j, now) ==
    IF st.ar[j].pid = 0 THEN st
    ELSE IF now >= st.ar[j].end_time
    THEN LET cleared == [st.ar EXCEPT ![j].timer_id = 0]
         IN [ar |-> cleared,
             procs |-> [st.procs EXCEPT ![st.ar[j].pid] = "reaped"],
             termed |-> st.termed \cup {st.ar[j].pid},
             db_timers |-> DbDeleteTimer(st.db_timers, cleared[j].timer_id)]
    ELSE IF st.procs[st.ar[j].pid] # "running"
    THEN [st EXCEPT !.ar = [st.ar EXCEPT ![j].pid = 0, ![j].timer_id = 0],
                    !.procs = [st.procs EXCEPT ![st.ar[j].pid] = "reaped"]]
    ELSE st

\* The liveness branch of lines 178-182 deleting the timer of the slot it
\* empties.
ScanSlot_CrashDeletesTimer(st, j, now) ==
    IF st.ar[j].pid = 0 THEN st
    ELSE IF now >= st.ar[j].end_time
    THEN LET cleared == [st.ar EXCEPT ![j].pid = 0, ![j].timer_id = 0]
         IN [ar |-> cleared,
             procs |-> [st.procs EXCEPT ![st.ar[j].pid] = "reaped"],
             termed |-> st.termed \cup {st.ar[j].pid},
             db_timers |-> DbDeleteTimer(st.db_timers, cleared[j].timer_id)]
    ELSE IF st.procs[st.ar[j].pid] # "running"
    THEN [st EXCEPT !.ar = [st.ar EXCEPT ![j].pid = 0, ![j].timer_id = 0],
                    !.procs = [st.procs EXCEPT ![st.ar[j].pid] = "reaped"],
                    !.db_timers = DbDeleteTimer(st.db_timers, st.ar[j].timer_id)]
    ELSE st

\* Lines 158-185, one slot of the loop. st = [ar, procs, termed, db_timers].
\* A process sent SIGTERM exits, so the waitpid that follows returns.
ScanSlot(st, j, now) ==
    IF st.ar[j].pid = 0 THEN st
    ELSE IF now >= st.ar[j].end_time
    THEN \* kill(pid, SIGTERM); waitpid(pid); pid = 0; timer_id = 0;
         \* db_delete_timer(active_recordings[j].timer_id)
         LET cleared == [st.ar EXCEPT ![j].pid = 0, ![j].timer_id = 0]
         IN [ar |-> cleared,
             procs |-> [st.procs EXCEPT ![st.ar[j].pid] = "reaped"],
             termed |-> st.termed \cup {st.ar[j].pid},
             db_timers |-> DbDeleteTimer(st.db_timers, cleared[j].timer_id)]
    ELSE IF st.procs[st.ar[j].pid] # "running"
    THEN \* waitpid(pid, &status, WNOHANG) != 0: the process has ended
         [st EXCEPT !.ar = [st.ar EXCEPT ![j].pid = 0, ![j].timer_id = 0],
                    !.procs = [st.procs EXCEPT ![st.ar[j].pid] = "reaped"]]
    ELSE st

RECURSIVE ScanFrom(_, _, _)
ScanFrom(st, j, now) ==
    IF j >= MAX_ACTIVE_RECORDINGS THEN st
    ELSE ScanFrom(ScanSlot(st, j, now), j + 1, now)

\* A slot scan in two passes: the expiry branch of every slot first, the
\* liveness branch of every slot after it.
ScanEvents_TwoPasses(st, j, now) ==
    LET slots == [k \in 1 .. (MAX_ACTIVE_RECORDINGS - j) |-> j + k - 1]
        occupied == SelectSeq(slots, LAMBDA k : st.ar[k].pid # 0)
        expired == SelectSeq(occupied, LAMBDA k : now >= st.ar[k].end_time)
        alive == SelectSeq(occupied, LAMBDA k : now < st.ar[k].end_time)
    IN [k \in 1 .. Len(expired) |-> Event("expiry", expired[k])]
       \o [k \in 1 .. Len(alive) |-> Event("liveness", alive[k])]

\* What the loop of lines 158-185 does from slot j on: the expiry branch
\* (kill, waitpid, reset, db_delete_timer) or the liveness branch (waitpid
\* with WNOHANG) of each occupied slot, in slot order.
RECURSIVE ScanEvents(_, _, _)
ScanEvents(st, j, now) ==
    IF j >= MAX_ACTIVE_RECORDINGS THEN <<>>
    ELSE (IF st.ar[j].pid = 0 THEN <<>>
          ELSE IF now >= st.ar[j].end_time THEN <<Event("expiry", j)>>
          ELSE <<Event("liveness", j)>>)
         \o ScanEvents(ScanSlot(st, j, now), j + 1, now)

\* Lines 156-186: the slot scan, under active_mutex.
SchedScan ==
    /\ pc = "scan"
    /\ events' = events \o ScanEvents([ar |-> active_recordings, procs |-> procs,
                                        termed |-> termed, db_timers |-> db_timers],
                                       0, now_ms)
    /\ LET st == ScanFrom([ar |-> active_recordings, procs |-> procs,
                           termed |-> termed, db_timers |-> db_timers], 0, now_ms)
       IN /\ active_recordings' = st.ar
          /\ procs' = st.procs
          /\ termed' = st.termed
          /\ db_timers' = st.db_timers
    /\ pc' = "sleep"
    /\ UNCHANGED <<clock, db_recordings, now_ms, timers, i, found, stopped, titles, active_mutex, calls, requests>>
    /\ UNCHANGED nonSched

\* Line 188: sleep(POLL_INTERVAL); at least one poll interval passes.
SchedSleep ==
    /\ pc = "sleep"
    /\ \E t \in (clock + 1) .. MaxTime : clock' = t
    /\ pc' = "poll"
    /\ events' = <<>>
    /\ UNCHANGED <<db_timers, db_recordings, procs, termed, active_recordings,
                   now_ms, timers, i, found, stopped, titles, active_mutex, calls, requests>>
    /\ UNCHANGED nonSched

-----------------------------------------------------------------------------
(* stop_recording, under active_mutex *)

StopMatches(ar, recording_id) ==
    {j \in Slots : ar[j].recording_id = recording_id /\ ar[j].pid # 0}

\* The loop of lines 208-217 with the pid test left out of the condition.
stop_recording_NoPidTest(recording_id) ==
    LET hits == {j \in Slots : active_recordings[j].recording_id = recording_id}
    IN IF hits = {}
          THEN /\ found' = 0
               /\ UNCHANGED <<active_recordings, procs, termed,
                              db_timers, db_recordings>>
          ELSE /\ termed' = termed \cup {active_recordings[Min(hits)].pid}
               /\ procs' = [p \in Pids |->
                              IF p = active_recordings[Min(hits)].pid
                                 THEN "reaped" ELSE procs[p]]
               /\ active_recordings' = [active_recordings EXCEPT ![Min(hits)].pid = 0]
               /\ found' = 1
               /\ UNCHANGED <<db_timers, db_recordings>>

\* Lines 210-211 without the reset of line 212.
stop_recording_NoReset(recording_id) ==
    IF StopMatches(active_recordings, recording_id) = {}
       THEN /\ found' = 0
            /\ UNCHANGED <<active_recordings, procs, termed, db_timers, db_recordings>>
       ELSE LET j == Min(StopMatches(active_recordings, recording_id))
            IN /\ termed' = termed \cup {active_recordings[j].pid}
               /\ procs' = [procs EXCEPT ![active_recordings[j].pid] = "reaped"]
               /\ active_recordings' = active_recordings
               /\ found' = 1
               /\ UNCHANGED <<db_timers, db_recordings>>

\* stop_recording that also deletes the recording's timer.
stop_recording_DeletesTimer(recording_id) ==
    IF StopMatches(active_recordings, recording_id) = {}
       THEN /\ found' = 0
            /\ UNCHANGED <<active_recordings, procs, termed, db_timers, db_recordings>>
       ELSE LET j == Min(StopMatches(active_recordings, recording_id))
            IN /\ termed' = termed \cup {active_recordings[j].pid}
               /\ procs' = [procs EXCEPT ![active_recordings[j].pid] = "reaped"]
               /\ active_recordings' = [active_recordings EXCEPT ![j].pid = 0]
               /\ found' = 1
               /\ db_timers' = DbDeleteTimer(db_timers, active_recordings[j].timer_id)
               /\ UNCHANGED db_recordings

\* Lines 205-220: the first slot with this recording_id and pid != 0 gets
\* kill(pid, SIGTERM), waitpid(pid) and pid = 0; returns found. No call into
\* db.c is made.
stop_recording(recording_id) ==
    IF StopMatches(active_recordings, recording_id) = {}
       THEN /\ found' = 0
            /\ UNCHANGED <<active_recordings, procs, termed, db_timers, db_recordings>>
       ELSE LET j == Min(StopMatches(active_recordings, recording_id))
            IN /\ termed' = termed \cup {active_recordings[j].pid}
               /\ procs' = [procs EXCEPT ![active_recordings[j].pid] = "reaped"]
               /\ active_recordings' = [active_recordings EXCEPT ![j].pid = 0]
               /\ found' = 1
               /\ UNCHANGED <<db_timers, db_recordings>>

-----------------------------------------------------------------------------
(* web.c API handlers and the encoder processes *)

\* One more API request is served.
Served ==
    /\ requests < MaxRequests
    /\ requests' = requests + 1

\* POST /api/recordings/<id>/stop: stop_recording(atoi(id))
StopCall(r) ==
    /\ Served
    /\ stop_recording(r)
    /\ stopped' = stopped \cup
                     {active_recordings[j].timer_id :
                         j \in {k \in StopMatches(active_recordings, r) :
                                  k = Min(StopMatches(active_recordings, r))}}
    /\ UNCHANGED <<clock, pc, now_ms, timers, i, events, titles, active_mutex, calls>>
    /\ UNCHANGED nonSched

ApiStopRecording == \E r \in 0 .. MaxRecId : StopCall(r)

\* POST /api/timers: db_add_timer(type, title, channel, start, end). The
\* windows are those a poll can find due (start < end).
ApiAddTimer ==
    /\ Served
    /\ NextRowId(db_timers) <= MaxTimerId
    /\ \E s \in 0 .. (MaxTime - 1) : \E e \in (s + 1) .. MaxTime :
          db_timers' = db_timers \cup
             {[id |-> NextRowId(db_timers), start_time |-> s, end_time |-> e]}
    /\ UNCHANGED <<clock, db_recordings, procs, termed, active_recordings,
                   pc, now_ms, timers, i, found, stopped, titles, active_mutex, calls, events>>
    /\ UNCHANGED nonSched

\* DELETE /api/timers/<id>: db_delete_timer(atoi(id))
ApiDeleteTimer ==
    /\ Served
    /\ \E id \in 1 .. MaxTimerId :
          /\ \E t \in db_timers : t.id = id
          /\ db_timers' = DbDeleteTimer(db_timers, id)
          /\ stopped' = stopped \ {id}
    /\ UNCHANGED <<clock, db_recordings, procs, termed, active_recordings,
                   pc, now_ms, timers, i, found, events, titles, active_mutex, calls>>
    /\ UNCHANGED nonSched

-----------------------------------------------------------------------------
(* get_active_recording_count, get_active_recording_ids and /api/status *)

\* Lines 222-230: the number of slots with pid != 0, counted under
\* active_mutex.
get_active_recording_count(ar) == Cardinality({j \in Slots : ar[j].pid # 0})

\* The fill loop of lines 247-251 from slot j on: recording_id of every slot
\* with pid != 0, in slot order.
RECURSIVE CollectIds(_, _)
CollectIds(ar, j) ==
    IF j >= MAX_ACTIVE_RECORDINGS THEN <<>>
    ELSE IF ar[j].pid # 0
    THEN <<ar[j].recording_id>> \o CollectIds(ar, j + 1)
    ELSE CollectIds(ar, j + 1)

\* The loops of lines 236-251 testing recording_id in place of pid.
RECURSIVE CollectIds_ByRecordingId(_, _)
CollectIds_ByRecordingId(ar, j) ==
    IF j >= MAX_ACTIVE_RECORDINGS THEN <<>>
    ELSE IF ar[j].recording_id # 0
    THEN <<ar[j].recording_id>> \o CollectIds_ByRecordingId(ar, j + 1)
    ELSE CollectIds_ByRecordingId(ar, j + 1)

\* get_active_recording_ids taking recording_id != 0 for "occupied".
get_active_recording_ids_ByRecordingId(ar) ==
    LET count == Cardinality({j \in Slots : ar[j].recording_id # 0})
    IN IF count = 0
          THEN [count |-> 0, is_null |-> TRUE, ids |-> <<>>]
          ELSE [count |-> count, is_null |-> FALSE,
                ids |-> CollectIds_ByRecordingId(ar, 0)]

\* Lines 232-254: *count from the first loop; NULL when it is 0, else the
\* malloc'ed array the second loop fills. Both loops run in one critical
\* section of active_mutex.
get_active_recording_ids(ar) ==
    LET count == Cardinality({j \in Slots : ar[j].pid # 0})
    IN IF count = 0
          THEN [count |-> 0, is_null |-> TRUE, ids |-> <<>>]
          ELSE [count |-> count, is_null |-> FALSE, ids |-> CollectIds(ar, 0)]

\* web.c lines 139-152: GET /api/status calls get_active_recording_ids and
\* builds the id list from its result.
ApiStatusIds ==
    /\ status.pc = "idle"
    /\ Served
    /\ LET r == get_active_recording_ids(active_recordings)
       IN status' = [status EXCEPT !.pc = "ids", !.count = r.count,
                                   !.is_null = r.is_null, !.ids = r.ids]
    /\ UNCHANGED <<clock, db_timers, db_recordings, procs, termed,
                   active_recordings, pc, now_ms, timers, i, found, stopped, titles, active_mutex, calls, events>>
    /\ UNCHANGED <<relayVars, delVars, argVars, routeVars>>

\* web.c lines 154-157: the handler then calls get_active_recording_count
\* for the "active_recordings" field and sends the response.
ApiStatusCount ==
    /\ status.pc = "ids"
    /\ status' = [status EXCEPT !.pc = "idle",
                     !.active = get_active_recording_count(active_recordings)]
    /\ UNCHANGED <<clock, db_timers, db_recordings, procs, termed,
                   active_recordings, pc, now_ms, timers, i, found, stopped, titles, active_mutex, calls, requests, events>>
    /\ UNCHANGED <<relayVars, delVars, argVars, routeVars>>

\* An ffmpeg child ends by itself (input ended, error, exec failure).
ProcExit ==
    /\ \E p \in Pids :
          /\ procs[p] = "running"
          /\ procs' = [procs EXCEPT ![p] = "exited"]
    /\ UNCHANGED <<clock, db_timers, db_recordings, termed, active_recordings,
                   pc, now_ms, timers, i, found, stopped, titles, active_mutex, calls, requests, events>>
    /\ UNCHANGED nonSched

Next ==
    \/ SchedPoll
    \/ SchedDueTimer
    \/ SchedScan
    \/ SchedSleep
    \/ ApiStopRecording
    \/ ApiAddTimer
    \/ ApiDeleteTimer
    \/ ApiStatusIds
    \/ ApiStatusCount
    \/ ProcExit

Spec == Init /\ [][Next]_vars

\* Titles a client gives its timers: two that differ only in a character
\* the scheduler replaces, and one apart from both.
Titles == {<<"a", " ", "b">>, <<"a", "_", "b">>, <<"c">>}

\* char safe_title[128] (line 89).
SafeTitleSize == 128

\* Lines 89-94: strncpy of at most 127 characters, then '/', '\\' and ' '
\* each replaced by '_'.
SafeTitle(title) ==
    LET cut == SubSeq(title, 1, Min({Len(title), SafeTitleSize - 1}))
    IN [k \in 1 .. Len(cut) |->
           IF cut[k] \in {"/", "\\", " "} THEN "_" ELSE cut[k]]

\* Line 96: snprintf(filename, ..., "recordings/%s-%lld.mp4", safe_title,
\* now_ms); the digits after the last '-' are now_ms, so the name tells the
\* pair apart from every other pair.
Filename(title, ms) == [safe_title |-> SafeTitle(title), now_ms |-> ms]

\* The state after start-up with the titles of the timers to come drawn
\* from Titles.
InitTitled ==
    /\ clock = 0
    /\ db_timers = {}
    /\ db_recordings = {}
    /\ procs = [p \in Pids |-> "none"]
    /\ termed = {}
    /\ active_recordings = [j \in Slots |-> EmptySlot]
    /\ pc = "poll"
    /\ now_ms = 0
    /\ timers = <<>>
    /\ i = 0
    /\ found = -1
    /\ stopped = {}
    /\ titles \in [1 .. MaxTimerId -> Titles]
    /\ active_mutex = "free"
    /\ calls = [c \in Callers |-> IdleCall]
    /\ requests = 0
    /\ events = <<>>
    /\ status = StatusIdle
    /\ RelayInit
    /\ DelInit
    /\ ArgInit
    /\ RouteInit

\* The scheduler with timers added and recordings stopped while it runs.
NextTitled ==
    \/ SchedPoll
    \/ SchedDueTimer
    \/ SchedScan
    \/ SchedSleep
    \/ ApiStopRecording
    \/ ApiAddTimer
    \/ ProcExit

SpecTitled == InitTitled /\ [][NextTitled]_vars

-----------------------------------------------------------------------------
(* active_mutex and the waits for a terminated child, step by step *)

\* The state after start-up with two timers in the table, both due at once,
\* the first ending at the next poll and the second later or never.
InitWaits ==
    /\ clock = 0
    /\ db_timers = {[id |-> 1, start_time |-> 0, end_time |-> 1],
                    [id |-> 2, start_time |-> 0, end_time |-> MaxTime + 1]}
    /\ db_recordings = {}
    /\ procs = [p \in Pids |-> "none"]
    /\ termed = {}
    /\ active_recordings = [j \in Slots |-> EmptySlot]
    /\ pc = "poll"
    /\ now_ms = 0
    /\ timers = <<>>
    /\ i = 0
    /\ found = -1
    /\ stopped = {}
    /\ titles = DefaultTitles
    /\ active_mutex = "free"
    /\ calls = [c \in Callers |-> IdleCall]
    /\ requests = 0
    /\ events = <<>>
    /\ status = StatusIdle
    /\ RelayInit
    /\ DelInit
    /\ ArgInit
    /\ RouteInit

\* Lines 73 and 138: the due-timer pass locks active_mutex for its is_active
\* test and for its slot search.
WaitsDueTimer == active_mutex = "free" /\ SchedDueTimer

\* Line 157: pthread_mutex_lock(&active_mutex) before the slot scan.
WaitsScanLock ==
    /\ pc = "scan"
    /\ active_mutex = "free"
    /\ active_mutex' = "sched"
    /\ pc' = "slot"
    /\ i' = 0
    /\ UNCHANGED <<clock, db_timers, db_recordings, procs, termed, active_recordings,
                   now_ms, timers, found, stopped, titles, calls, requests, events>>
    /\ UNCHANGED nonSched

\* Slot j is occupied, its end is reached and its encoder still runs: after
\* the kill of line 163 the waitpid of line 164 has to wait.
MustWait(j) ==
    /\ active_recordings[j].pid # 0
    /\ now_ms >= active_recordings[j].end_time
    /\ procs[active_recordings[j].pid] = "running"

\* The tables the slot scan works on.
ScanState == [ar |-> active_recordings, procs |-> procs,
              termed |-> termed, db_timers |-> db_timers]

\* Lines 158-186 at slot i with the mutex held: past the last slot the mutex
\* is unlocked; an expired slot whose encoder runs gets kill(pid, SIGTERM)
\* and the loop enters waitpid; every other slot is dealt with at once.
WaitsScanSlot ==
    /\ pc = "slot"
    /\ IF i >= MAX_ACTIVE_RECORDINGS
          THEN /\ active_mutex' = "free"
               /\ pc' = "sleep"
               /\ i' = 0
               /\ UNCHANGED <<active_recordings, procs, termed, db_timers>>
          ELSE IF MustWait(i)
          THEN /\ termed' = termed \cup {active_recordings[i].pid}
               /\ pc' = "wait"
               /\ UNCHANGED <<active_mutex, i, active_recordings, procs, db_timers>>
          ELSE /\ active_recordings' = ScanSlot(ScanState, i, now_ms).ar
               /\ procs' = ScanSlot(ScanState, i, now_ms).procs
               /\ termed' = ScanSlot(ScanState, i, now_ms).termed
               /\ db_timers' = ScanSlot(ScanState, i, now_ms).db_timers
               /\ i' = i + 1
               /\ UNCHANGED <<active_mutex, pc>>
    /\ UNCHANGED <<clock, db_recordings, now_ms, timers, found, stopped, titles,
                   calls, requests, events>>
    /\ UNCHANGED nonSched

\* Line 164: waitpid(pid, NULL, 0) returns once the child has ended; lines
\* 168-174 follow.
WaitsScanWait ==
    /\ pc = "wait"
    /\ procs[active_recordings[i].pid] = "exited"
    /\ active_recordings' = ScanSlot(ScanState, i, now_ms).ar
    /\ procs' = ScanSlot(ScanState, i, now_ms).procs
    /\ termed' = ScanSlot(ScanState, i, now_ms).termed
    /\ db_timers' = ScanSlot(ScanState, i, now_ms).db_timers
    /\ i' = i + 1
    /\ pc' = "slot"
    /\ UNCHANGED <<clock, db_recordings, now_ms, timers, found, stopped, titles,
                   active_mutex, calls, requests, events>>
    /\ UNCHANGED nonSched

\* The recording ids the stop calls name: those of the first two recordings
\* started.
StopArgs == {1, 2}

\* A web thread enters stop_recording(arg), get_active_recording_count or
\* get_active_recording_ids and reaches its pthread_mutex_lock.
CallBegin(c) ==
    /\ calls[c].pc = "idle"
    /\ \/ \E r \in StopArgs :
             calls' = [calls EXCEPT ![c] = [pc |-> "lock", op |-> "stop", arg |-> r]]
       \/ \E op \in {"count", "ids"} :
             calls' = [calls EXCEPT ![c] = [pc |-> "lock", op |-> op, arg |-> 0]]
    /\ UNCHANGED <<clock, db_timers, db_recordings, procs, termed, active_recordings,
                   pc, now_ms, timers, i, found, stopped, titles, active_mutex,
                   requests, events>>
    /\ UNCHANGED nonSched

\* The pid stop_recording(recording_id) signals and waits for.
StopPid(recording_id) ==
    active_recordings[Min(StopMatches(active_recordings, recording_id))].pid

\* The call of thread c gets the mutex. The accessors (lines 222-254) and a
\* stop without a match (lines 208-219) run their loops and unlock; a stop
\* with a match sends kill(pid, SIGTERM) (line 210) and enters waitpid.
CallLock(c) ==
    /\ calls[c].pc = "lock"
    /\ active_mutex = "free"
    /\ IF calls[c].op = "stop" /\ StopMatches(active_recordings, calls[c].arg) # {}
          THEN /\ termed' = termed \cup {StopPid(calls[c].arg)}
               /\ active_mutex' = c
               /\ calls' = [calls EXCEPT ![c].pc = "wait"]
               /\ UNCHANGED <<active_recordings, procs, db_timers, db_recordings, found>>
          ELSE IF calls[c].op = "stop"
          THEN /\ stop_recording(calls[c].arg)
               /\ calls' = [calls EXCEPT ![c].pc = "done"]
               /\ UNCHANGED active_mutex
          ELSE /\ calls' = [calls EXCEPT ![c].pc = "done"]
               /\ UNCHANGED <<active_recordings, procs, termed, db_timers,
                              db_recordings, found, active_mutex>>
    /\ UNCHANGED <<clock, pc, now_ms, timers, i, stopped, titles, requests, events>>
    /\ UNCHANGED nonSched

\* A stop that returns from its waitpid without unlocking the mutex.
StopWait_KeepsMutex(c) ==
    /\ calls[c].pc = "wait"
    /\ procs[StopPid(calls[c].arg)] = "exited"
    /\ stop_recording(calls[c].arg)
    /\ stopped' = stopped \cup
                     {active_recordings[j].timer_id :
                         j \in {Min(StopMatches(active_recordings, calls[c].arg))}}
    /\ active_mutex' = active_mutex
    /\ calls' = [calls EXCEPT ![c].pc = "done"]
    /\ UNCHANGED <<clock, pc, now_ms, timers, i, titles, requests, events>>
    /\ UNCHANGED nonSched

\* Lines 211-219: waitpid(pid, NULL, 0) returns once the child has ended;
\* pid = 0, found = 1, pthread_mutex_unlock, return.
StopWait(c) ==
    /\ calls[c].pc = "wait"
    /\ procs[StopPid(calls[c].arg)] = "exited"
    /\ stop_recording(calls[c].arg)
    /\ stopped' = stopped \cup
                     {active_recordings[j].timer_id :
                         j \in {Min(StopMatches(active_recordings, calls[c].arg))}}
    /\ active_mutex' = "free"
    /\ calls' = [calls EXCEPT ![c].pc = "done"]
    /\ UNCHANGED <<clock, pc, now_ms, timers, i, titles, requests, events>>
    /\ UNCHANGED nonSched

\* An encoder that has been sent SIGTERM ends.
TermExit ==
    /\ \E p \in termed :
          /\ procs[p] = "running"
          /\ procs' = [procs EXCEPT ![p] = "exited"]
    /\ UNCHANGED <<clock, db_timers, db_recordings, termed, active_recordings,
                   pc, now_ms, timers, i, found, stopped, titles, active_mutex, calls,
                   requests, events>>
    /\ UNCHANGED nonSched

WaitsCallBegin == \E c \in Callers : CallBegin(c)
WaitsCallLock == \E c \in Callers : CallLock(c)
WaitsStopWait == \E c \in Callers : StopWait(c)

\* The steps of the scheduler loop from the query to the unlock of line 186.
WaitsCycle ==
    \/ SchedPoll
    \/ WaitsDueTimer
    \/ WaitsScanLock
    \/ WaitsScanSlot
    \/ WaitsScanWait

NextWaits ==
    \/ SchedPoll
    \/ WaitsDueTimer
    \/ WaitsScanLock
    \/ WaitsScanSlot
    \/ WaitsScanWait
    \/ SchedSleep
    \/ WaitsCallBegin
    \/ WaitsCallLock
    \/ WaitsStopWait
    \/ ProcExit
    \/ TermExit

\* The threads run on (the scheduler thread and every web thread inside a
\* call are scheduled again and again), and a process sent SIGTERM ends.
SpecWaits ==
    /\ InitWaits
    /\ [][NextWaits]_vars
    /\ WF_vars(WaitsCycle)
    /\ \A c \in Callers : WF_vars(CallLock(c) \/ StopWait(c))
    /\ WF_vars(TermExit)

TypeOK ==
    /\ clock \in 0 .. MaxTime
    /\ pc \in {"poll", "due", "scan", "slot", "wait", "sleep"}
    /\ active_mutex \in {"free", "sched"} \cup Callers
    /\ \A j \in Slots : active_recordings[j].pid \in 0 .. MaxPid
    /\ found \in {-1, 0, 1}

-----------------------------------------------------------------------------
(* discovery.c: the backend address *)

\* take_it with every IPv4 candidate accepted, localhost or not.
TakeIt_AnyIPv4(cur, new) ==
    IF cur = EmptyUrl THEN TRUE
    ELSE new.proto # "v6"

\* resolve_callback lines 81-97: take_it. The current URL is IPv6 when it
\* holds a '[', the new one is localhost when it holds "127.0.0.1".
TakeIt(cur, new) ==
    IF cur = EmptyUrl THEN TRUE
    ELSE IF cur.proto = "v6" /\ new.proto # "v6" THEN TRUE
    ELSE IF new.proto # "v6" THEN new.localhost
    ELSE FALSE

\* resolve_callback, AVAHI_RESOLVER_FOUND, up to the start of the strncpy
\* of line 100 (the Avahi thread runs one callback at a time).
ResolveFound ==
    /\ copying = EmptyUrl
    /\ \E u \in Urls :
          /\ TakeIt(core_url, u)
          /\ copying' = u
    /\ UNCHANGED <<core_url, relay, child, pipes, sink, signals>>
    /\ UNCHANGED nonRelay

\* The strncpy of line 100 has written the whole URL.
ResolveCopied ==
    /\ copying # EmptyUrl
    /\ core_url' = copying
    /\ copying' = EmptyUrl
    /\ UNCHANGED <<relay, child, pipes, sink, signals>>
    /\ UNCHANGED nonRelay

\* What a web thread can find in core_url: no lock orders its reads with
\* the Avahi thread's strncpy, so during a copy it is the old content, the
\* new content or a mix of both.
CoreReads ==
    IF copying = EmptyUrl \/ copying = core_url THEN {core_url}
    ELSE {core_url, copying, TornUrl}

\* The NULL pointer get_core_base_url returns for "not discovered".
NullUrl == [proto |-> "null", localhost |-> FALSE]

\* get_core_base_url without the empty-string test of line 202: it hands
\* out core_url as it is.
get_core_base_url_NoTest == CoreReads

\* get_core_base_url lines 201-204: the values the call can return, NULL
\* when strlen(core_url) == 0.
get_core_base_url == {IF u = EmptyUrl THEN NullUrl ELSE u : u \in CoreReads}

-----------------------------------------------------------------------------
(* web.c: the /stream/ and /transcode/ dispatcher *)

\* The handler answers with an error status and closes the socket.
Respond(r, kind, code) ==
    relay' = [relay EXCEPT ![r] =
                 [IdleRelay EXCEPT !.pc = "done", !.kind = kind, !.resp = code]]

\* The handler calls transcode_stream(client_socket, core, channel, tc).
Invoke(r, kind, core) ==
    relay' = [relay EXCEPT ![r] =
                 [IdleRelay EXCEPT !.pc = "pipe", !.kind = kind,
                                   !.invoked = TRUE, !.src = core]]

\* web.c lines 331-364: GET /stream/<chan>.
ApiStream ==
    /\ \E r \in Reqs :
          /\ relay[r].pc = "idle"
          /\ \E core \in get_core_base_url :
                IF core = NullUrl
                   THEN Respond(r, "stream", 503)
                   ELSE Invoke(r, "stream", core)
    /\ UNCHANGED <<core_url, copying, child, pipes, sink, signals>>
    /\ UNCHANGED nonRelay

\* web.c lines 365-427: GET /transcode/<segments>; has_channel tells whether
\* a segment outside the vocabulary named the channel.
ApiTranscode ==
    /\ \E r \in Reqs :
          /\ relay[r].pc = "idle"
          /\ \E core \in get_core_base_url : \E has_channel \in BOOLEAN :
                IF core = NullUrl
                   THEN Respond(r, "transcode", 503)
                   ELSE IF ~has_channel
                   THEN Respond(r, "transcode", 400)
                   ELSE Invoke(r, "transcode", core)
    /\ UNCHANGED <<core_url, copying, child, pipes, sink, signals>>
    /\ UNCHANGED nonRelay

-----------------------------------------------------------------------------
(* transcode.c: transcode_source, one activation per request *)

Return(r, value, rec) ==
    [rec EXCEPT !.pc = "done", !.returned = TRUE, !.ret = value]

\* Lines 202-206: pipe(pipe_fd); -1 when it fails.
TsPipe(r) ==
    /\ relay[r].pc = "pipe"
    /\ \/ relay' = [relay EXCEPT ![r].fds = {"r", "w"}, ![r].pc = "fork"]
       \/ relay' = [relay EXCEPT ![r] = Return(r, -1, relay[r])]
    /\ UNCHANGED <<core_url, copying, child, pipes, sink, signals>>

FreeRelayPids == {p \in RelayPids : child[p].state \in {"none", "reaped"}}

\* The pipe write ends open in the server process, which a forked child
\* inherits (no descriptor is close-on-exec and the child closes none but
\* its own pair).
OpenWriteEnds == {q \in Reqs : "w" \in relay[q].fds}

\* fork() with the response headers already sent when it fails.
TsFork_HeadersFirst(r) ==
    /\ relay[r].pc = "fork"
    /\ \/ /\ FreeRelayPids # {}
          /\ child' = [child EXCEPT ![Min(FreeRelayPids)] =
                         [state |-> "forked", exec |-> "none", out |-> 0,
                          wends |-> OpenWriteEnds]]
          /\ relay' = [relay EXCEPT ![r].pid = Min(FreeRelayPids),
                                    ![r].pc = "headers"]
       \/ /\ relay' = [relay EXCEPT ![r] =
                          Return(r, -1, [relay[r] EXCEPT !.headers = (sink[r] = "open")])]
          /\ UNCHANGED child
    /\ UNCHANGED <<core_url, copying, pipes, sink, signals>>

\* Lines 208-212: fork(); -1 when it fails. The child starts with copies of
\* the server's open descriptors.
TsFork(r) ==
    /\ relay[r].pc = "fork"
    /\ \/ /\ FreeRelayPids # {}
          /\ child' = [child EXCEPT ![Min(FreeRelayPids)] =
                         [state |-> "forked", exec |-> "none", out |-> 0,
                          wends |-> OpenWriteEnds]]
          /\ relay' = [relay EXCEPT ![r].pid = Min(FreeRelayPids),
                                    ![r].pc = "headers"]
       \/ /\ relay' = [relay EXCEPT ![r] = Return(r, -1, relay[r])]
          /\ UNCHANGED child
    /\ UNCHANGED <<core_url, copying, pipes, sink, signals>>

\* Lines 240-246 in the parent: close(pipe_fd[1]); send_headers writes the
\* 200 response head, and the result of its write is not looked at.
TsHeaders(r) ==
    /\ relay[r].pc = "headers"
    /\ relay' = [relay EXCEPT ![r].fds = relay[r].fds \ {"w"},
                              ![r].headers = (sink[r] = "open"),
                              ![r].resp = 200,
                              ![r].pc = "read"]
    /\ UNCHANGED <<core_url, copying, child, pipes, sink, signals>>

\* No process holds a write end of r's pipe: a read of the empty pipe
\* returns 0.
WriteEndsClosed(r) ==
    /\ "w" \notin relay[r].fds
    /\ \A p \in RelayPids :
          child[p].state \in {"forked", "running"} => r \notin child[p].wends

\* The read of line 251 returning from transcode_source at once when it
\* fails.
TsRead_ReturnsOnError(r) ==
    /\ relay[r].pc = "read"
    /\ \/ /\ pipes[r] # <<>>
          /\ relay' = [relay EXCEPT ![r].buf = Head(pipes[r]), ![r].pc = "write"]
          /\ pipes' = [pipes EXCEPT ![r] = Tail(pipes[r])]
       \/ /\ pipes[r] = <<>>
          /\ WriteEndsClosed(r)
          /\ relay' = [relay EXCEPT ![r].pc = "kill"]
          /\ UNCHANGED pipes
       \/ /\ relay' = [relay EXCEPT ![r] = Return(r, -1, relay[r])]
          /\ UNCHANGED pipes
    /\ UNCHANGED <<core_url, copying, child, sink, signals>>

\* Line 251: n = read(pipe_fd[0], buffer, 8192). n > 0 takes the oldest
\* chunk, n == 0 is the end of the encoder's output, n < 0 an error; the
\* loop ends on both.
TsRead(r) ==
    /\ relay[r].pc = "read"
    /\ \/ /\ pipes[r] # <<>>
          /\ relay' = [relay EXCEPT ![r].buf = Head(pipes[r]), ![r].pc = "write"]
          /\ pipes' = [pipes EXCEPT ![r] = Tail(pipes[r])]
       \/ /\ pipes[r] = <<>>
          /\ WriteEndsClosed(r)
          /\ relay' = [relay EXCEPT ![r].pc = "kill"]
          /\ UNCHANGED pipes
       \/ /\ relay' = [relay EXCEPT ![r].pc = "kill"]
          /\ UNCHANGED pipes
    /\ UNCHANGED <<core_url, copying, child, sink, signals>>

\* The bytes of the n-th chunk the encoder writes, first and last.
Chunk(n) == <<[chunk |-> n, byte |-> "first"], [chunk |-> n, byte |-> "last"]>>

\* What write(client_socket, buffer, n) can add to the sink when it does not
\* fail: the whole buffer, or its head alone when the call is cut short.
Written(n) == {Chunk(n), <<Head(Chunk(n))>>}

\* The write of line 252 with its result ignored: the loop reads on.
TsWrite_IgnoresFailure(r) ==
    /\ relay[r].pc = "write"
    /\ IF sink[r] = "open"
          THEN \E w \in Written(relay[r].buf) :
                  relay' = [relay EXCEPT ![r].sent = relay[r].sent \o w,
                                         ![r].buf = 0, ![r].pc = "read"]
          ELSE relay' = [relay EXCEPT ![r].wfail = TRUE, ![r].buf = 0,
                                      ![r].pc = "read"]
    /\ UNCHANGED <<core_url, copying, child, pipes, sink, signals>>

\* Lines 252-255: write(client_socket, buffer, n); a result < 0 (the client
\* has gone; SIGPIPE is ignored, main.c:73) breaks the loop, every other
\* result, a short count included, lets it read on.
TsWrite(r) ==
    /\ relay[r].pc = "write"
    /\ IF sink[r] = "open"
          THEN \E w \in Written(relay[r].buf) :
                  relay' = [relay EXCEPT ![r].sent = relay[r].sent \o w,
                                         ![r].buf = 0, ![r].pc = "read"]
          ELSE relay' = [relay EXCEPT ![r].wfail = TRUE, ![r].buf = 0,
                                      ![r].pc = "kill"]
    /\ UNCHANGED <<core_url, copying, child, pipes, sink, signals>>

\* kill(0, SIGTERM): every encoder child of the server process.
KillTargets_ProcessGroup(r) ==
    {p \in RelayPids : child[p].state \in {"forked", "running", "exited"}}

\* Line 261: kill(pid, SIGTERM) with the activation's own local pid.
KillTargets(r) == {relay[r].pid}

\* Lines 261-262: kill(pid, SIGTERM); close(pipe_fd[0]). An encoder that
\* gets SIGTERM ends.
TsKill(r) ==
    /\ relay[r].pc = "kill"
    /\ signals' = signals \cup {[by |-> r, pid |-> p] : p \in KillTargets(r)}
    /\ child' = [p \in RelayPids |->
                    IF p \in KillTargets(r) /\ child[p].state \in {"forked", "running"}
                       THEN [child[p] EXCEPT !.state = "exited"]
                       ELSE child[p]]
    /\ relay' = [relay EXCEPT ![r].fds = relay[r].fds \ {"r"}, ![r].pc = "wait"]
    /\ UNCHANGED <<core_url, copying, pipes, sink>>

\* Lines 263-266: waitpid(pid, &status, 0) returns once the child has ended;
\* return 0.
TsWait(r) ==
    /\ relay[r].pc = "wait"
    /\ child[relay[r].pid].state = "exited"
    /\ child' = [child EXCEPT ![relay[r].pid].state = "reaped"]
    /\ relay' = [relay EXCEPT ![r] = Return(r, 0, relay[r])]
    /\ UNCHANGED <<core_url, copying, pipes, sink, signals>>

RelayPipe == (\E r \in Reqs : TsPipe(r)) /\ UNCHANGED nonRelay
RelayFork == (\E r \in Reqs : TsFork(r)) /\ UNCHANGED nonRelay
RelayHeaders == (\E r \in Reqs : TsHeaders(r)) /\ UNCHANGED nonRelay
RelayRead == (\E r \in Reqs : TsRead(r)) /\ UNCHANGED nonRelay
RelayWrite == (\E r \in Reqs : TsWrite(r)) /\ UNCHANGED nonRelay
RelayKill == (\E r \in Reqs : TsKill(r)) /\ UNCHANGED nonRelay
RelayWait == (\E r \in Reqs : TsWait(r)) /\ UNCHANGED nonRelay

\* The request whose transcode_source forked child p.
Owner(p) == CHOOSE r \in Reqs : relay[r].pid = p /\ ~relay[r].returned

\* Lines 214-237 in the child: the descriptors are set up and execvp runs
\* ffmpeg; when execvp fails the child calls exit(1).
ChildExec ==
    /\ \E p \in RelayPids :
          /\ child[p].state = "forked"
          /\ \/ child' = [child EXCEPT ![p].state = "running", ![p].exec = "ok"]
             \/ child' = [child EXCEPT ![p].state = "exited", ![p].exec = "failed"]
    /\ UNCHANGED <<core_url, copying, relay, pipes, sink, signals>>
    /\ UNCHANGED nonRelay

\* ffmpeg writes the next chunk of its output to pipe:1.
ChildWrite ==
    /\ \E p \in RelayPids :
          /\ child[p].state = "running"
          /\ child[p].out < MaxChunks
          /\ child' = [child EXCEPT ![p].out = child[p].out + 1]
          /\ pipes' = [pipes EXCEPT ![Owner(p)] = Append(pipes[Owner(p)], child[p].out + 1)]
    /\ UNCHANGED <<core_url, copying, relay, sink, signals>>
    /\ UNCHANGED nonRelay

\* ffmpeg ends by itself (end of input, error).
ChildExit ==
    /\ \E p \in RelayPids :
          /\ child[p].state = "running"
          /\ child' = [child EXCEPT ![p].state = "exited"]
    /\ UNCHANGED <<core_url, copying, relay, pipes, sink, signals>>
    /\ UNCHANGED nonRelay

\* The client of request r closes its end of the connection.
SinkClose ==
    /\ \E r \in Reqs :
          /\ relay[r].pc \notin {"idle", "done"}
          /\ sink[r] = "open"
          /\ sink' = [sink EXCEPT ![r] = "closed"]
    /\ UNCHANGED <<core_url, copying, relay, child, pipes, signals>>
    /\ UNCHANGED nonRelay

\* Discovery and the dispatcher: the relays it invokes are left at their
\* first step.
NextDispatch ==
    \/ ResolveFound
    \/ ResolveCopied
    \/ ApiStream
    \/ ApiTranscode

SpecDispatch == Init /\ [][NextDispatch]_vars

\* The relays of concurrent /stream/ requests with the backend discovered.
NextRelay ==
    \/ ApiStream
    \/ RelayPipe
    \/ RelayFork
    \/ RelayHeaders
    \/ RelayRead
    \/ RelayWrite
    \/ RelayKill
    \/ RelayWait
    \/ ChildExec
    \/ ChildWrite
    \/ ChildExit
    \/ SinkClose

SpecRelay == InitDiscovered /\ [][NextRelay]_vars

-----------------------------------------------------------------------------
(* web.c: DELETE /api/recordings/<id> *)

RecIds == 1 .. MaxRecId

\* Recordings made earlier: any set of Recording entries, each with or
\* without its output file on disk (ffmpeg creates the file, the scheduler
\* the entry).
InitRecorded ==
    /\ clock = 0
    /\ db_timers = {}
    /\ \E ids \in SUBSET RecIds :
          /\ db_recordings = {[id |-> k, end_time |-> 0] : k \in ids}
          /\ files \in SUBSET ids
    /\ procs = [p \in Pids |-> "none"]
    /\ termed = {}
    /\ active_recordings = [j \in Slots |-> EmptySlot]
    /\ pc = "poll"
    /\ now_ms = 0
    /\ timers = <<>>
    /\ i = 0
    /\ found = -1
    /\ stopped = {}
    /\ titles = DefaultTitles
    /\ active_mutex = "free"
    /\ calls = [c \in Callers |-> IdleCall]
    /\ requests = 0
    /\ events = <<>>
    /\ status = StatusIdle
    /\ RelayInit
    /\ del = [id |-> 0, status |-> 0]
    /\ ArgInit
    /\ RouteInit

\* db_delete_recording: DELETE FROM recordings WHERE id = <id>
DbDeleteRecording(table, id) == {r \in table : r.id # id}

\* web.c lines 210-219: fpath = db_get_recording_path(id) (NULL when the
\* query fails or no row has the id); if (fpath) unlink(fpath), result not
\* looked at; then db_delete_recording(id): success sends 200, failure 500.
DeleteRecording(id, lookup_ok, unlink_ok, delete_ok) ==
    LET fpath == lookup_ok /\ \E r \in db_recordings : r.id = id
    IN /\ files' = IF fpath /\ unlink_ok THEN files \ {id} ELSE files
       /\ db_recordings' = IF delete_ok THEN DbDeleteRecording(db_recordings, id)
                           ELSE db_recordings
       /\ del' = [id |-> id, status |-> IF delete_ok THEN 200 ELSE 500]

ApiDeleteRecording ==
    /\ \E id \in 0 .. MaxRecId : \E lookup_ok, unlink_ok, delete_ok \in BOOLEAN :
          DeleteRecording(id, lookup_ok, unlink_ok, delete_ok)
    /\ UNCHANGED <<clock, db_timers, procs, termed, active_recordings,
                   pc, now_ms, timers, i, found, stopped, titles, active_mutex, calls, requests, events>>
    /\ UNCHANGED <<status, relayVars, argVars, routeVars>>

NextDelete == ApiDeleteRecording

SpecDelete == InitRecorded /\ [][NextDelete]_vars

\* DELETE /api/recordings/<id> as one of the API requests served while the
\* scheduler runs.
ApiDeleteWhileScheduling ==
    /\ Served
    /\ \E id \in 0 .. MaxRecId : \E lookup_ok, unlink_ok, delete_ok \in BOOLEAN :
          DeleteRecording(id, lookup_ok, unlink_ok, delete_ok)
    /\ UNCHANGED <<clock, db_timers, procs, termed, active_recordings,
                   pc, now_ms, timers, i, found, stopped, titles, active_mutex, calls, events>>
    /\ UNCHANGED <<status, relayVars, argVars, routeVars>>

\* The scheduler with stop and recording-deletion requests arriving while
\* it runs.
NextSchedDelete ==
    \/ SchedPoll
    \/ SchedDueTimer
    \/ SchedScan
    \/ SchedSleep
    \/ ApiStopRecording
    \/ ApiAddTimer
    \/ ProcExit
    \/ ApiDeleteWhileScheduling

SpecSchedDelete == Init /\ [][NextSchedDelete]_vars

-----------------------------------------------------------------------------
(* web.c: the path segments of /transcode/ and /api/play/ *)

\* A path is the sequence of tokens strtok(p, "/") yields (never empty,
\* never holding '/'); a token is its sequence of characters.
Digits == {"0", "1", "2", "3", "4", "5", "6", "7", "8", "9"}

DigitVal(c) == CHOOSE n \in 0 .. 9 : <<"0", "1", "2", "3", "4", "5", "6", "7", "8", "9">>[n + 1] = c

\* atoi on a string without leading blanks or sign: the value of its
\* leading digits, 0 when there are none.
RECURSIVE AtoiFrom(_, _, _)
AtoiFrom(str, k, acc) ==
    IF k > Len(str) \/ str[k] \notin Digits THEN acc
    ELSE AtoiFrom(str, k + 1, 10 * acc + DigitVal(str[k]))

atoi(str) == AtoiFrom(str, 1, 0)

\* The keywords of the handlers' strcmp chains.
S_software == <<"s", "o", "f", "t", "w", "a", "r", "e">>
S_qsv == <<"q", "s", "v">>
S_nvenc == <<"n", "v", "e", "n", "c">>
S_vaapi == <<"v", "a", "a", "p", "i">>
S_h264 == <<"h", "2", "6", "4">>
S_hevc == <<"h", "e", "v", "c">>
S_av1 == <<"a", "v", "1">>
S_copy == <<"c", "o", "p", "y">>
S_ac6 == <<"a", "c", "6">>

\* Largest number of path segments of a request.
MaxSegs == 3

\* char channel_id[64] (web.c:374).
ChannelIdSize == 64

\* A segment longer than channel_id.
LongSeg == [k \in 1 .. (ChannelIdSize + 2) |-> IF k = 1 THEN "c" ELSE "7"]

\* Segments of /transcode/ requests: keywords, bitrates, channel numbers
\* and names.
TranscodeSegs ==
    {S_qsv, S_software, S_av1, S_ac6, <<"b", "5">>, <<"B", "7", "k">>,
     <<"2">>, <<"b", "b", "c">>, LongSeg}

\* Segments of /api/play/ requests.
PlaySegs == {<<"2">>, <<"0">>, <<"3", "x">>, S_hevc, S_ac6, <<"-", "1">>}

PathsOver(segs) == UNION {[1 .. n -> segs] : n \in 0 .. MaxSegs}

TranscodePaths == PathsOver(TranscodeSegs)

\* Lines 369-373 and 253-257: the defaults.
DefaultConfig ==
    [backend |-> "software", codec |-> "h264", bitrate_kbps |-> 0, surround51 |-> 0]

\* The test of lines 285 and 396.
IsBitrate(token) ==
    /\ token[1] \in {"b", "B"}
    /\ Len(token) >= 2
    /\ token[2] \in Digits

\* strncpy(channel_id, token, sizeof(channel_id) - 1) into the zeroed
\* buffer.
CopyChannel(token) ==
    SubSeq(token, 1, IF Len(token) < ChannelIdSize - 1 THEN Len(token)
                     ELSE ChannelIdSize - 1)

\* A /transcode/ parser in which the first segment of a kind wins.
TranscodeToken_FirstWins(st, token) ==
    IF token \in {S_software, S_qsv, S_nvenc, S_vaapi}
       THEN IF st.tc.backend # "software" THEN st
            ELSE [st EXCEPT !.tc.backend =
                     IF token = S_software THEN "software"
                     ELSE IF token = S_qsv THEN "qsv"
                     ELSE IF token = S_nvenc THEN "nvenc" ELSE "vaapi"]
    ELSE IF token = S_h264 THEN [st EXCEPT !.tc.codec = "h264"]
    ELSE IF token = S_hevc THEN [st EXCEPT !.tc.codec = "hevc"]
    ELSE IF token = S_av1 THEN [st EXCEPT !.tc.codec = "av1"]
    ELSE IF token = S_copy THEN [st EXCEPT !.tc.codec = "copy"]
    ELSE IF token = S_ac6 THEN [st EXCEPT !.tc.surround51 = 1]
    ELSE IF IsBitrate(token)
       THEN IF st.tc.bitrate_kbps # 0 THEN st
            ELSE [st EXCEPT !.tc.bitrate_kbps = atoi(Tail(token))]
    ELSE IF st.channel_id # <<>> THEN st
    ELSE [st EXCEPT !.channel_id = CopyChannel(token)]

\* Lines 380-403: one pass of the token loop of /transcode/.
\* st = [tc, channel_id].
TranscodeToken(st, token) ==
    IF token = S_software THEN [st EXCEPT !.tc.backend = "software"]
    ELSE IF token = S_qsv THEN [st EXCEPT !.tc.backend = "qsv"]
    ELSE IF token = S_nvenc THEN [st EXCEPT !.tc.backend = "nvenc"]
    ELSE IF token = S_vaapi THEN [st EXCEPT !.tc.backend = "vaapi"]
    ELSE IF token = S_h264 THEN [st EXCEPT !.tc.codec = "h264"]
    ELSE IF token = S_hevc THEN [st EXCEPT !.tc.codec = "hevc"]
    ELSE IF token = S_av1 THEN [st EXCEPT !.tc.codec = "av1"]
    ELSE IF token = S_copy THEN [st EXCEPT !.tc.codec = "copy"]
    ELSE IF token = S_ac6 THEN [st EXCEPT !.tc.surround51 = 1]
    ELSE IF IsBitrate(token)
       THEN [st EXCEPT !.tc.bitrate_kbps = atoi(Tail(token))]
    ELSE [st EXCEPT !.channel_id = CopyChannel(token)]

\* Lines 378-406: the token loop from token k on.
RECURSIVE TranscodeTokens(_, _, _)
TranscodeTokens(path, k, st) ==
    IF k > Len(path) THEN st
    ELSE TranscodeTokens(path, k + 1, TranscodeToken(st, path[k]))

\* Lines 365-427: GET /transcode/<path> on connection r. The path is parsed
\* first, then the backend address is asked for: NULL answers 503, an empty
\* channel_id 400, else transcode_stream(client_socket, core, channel_id, tc)
\* is called.
TranscodeHandler(r, path) ==
    LET st == TranscodeTokens(path, 1, [tc |-> DefaultConfig, channel_id |-> <<>>])
    IN \E core \in get_core_base_url :
          /\ req' = [kind |-> "transcode", r |-> r, path |-> path, core |-> core,
                     tc |-> st.tc, channel_id |-> st.channel_id, id |-> 0,
                     found |-> FALSE]
          /\ IF core = NullUrl
                THEN Respond(r, "transcode", 503)
                ELSE IF Len(st.channel_id) = 0
                THEN Respond(r, "transcode", 400)
                ELSE Invoke(r, "transcode", core)

\* A client has sent GET /transcode/<path>, before or after the backend
\* was discovered; req.path is the path of the request line.
InitParse ==
    /\ SchedInit
    /\ core_url \in {EmptyUrl, LocalhostUrl}
    /\ copying = EmptyUrl
    /\ relay = [r \in Reqs |-> IdleRelay]
    /\ child = [p \in RelayPids |-> NoChild]
    /\ pipes = [r \in Reqs |-> <<>>]
    /\ sink = [r \in Reqs |-> "open"]
    /\ signals = {}
    /\ DelInit
    /\ ArgInit
    /\ \E path \in TranscodePaths : req = [NoReq EXCEPT !.path = path]

\* The handler thread of connection r serves the request.
ApiTranscodePath ==
    /\ \E r \in Reqs :
          /\ relay[r].pc = "idle"
          /\ TranscodeHandler(r, req.path)
    /\ UNCHANGED <<core_url, copying, child, pipes, sink, signals>>
    /\ UNCHANGED <<schedVars, status, delVars, argVars>>

\* The /transcode/ parser and the start of the relays it invokes.
NextParse ==
    \/ ApiTranscodePath
    \/ RelayPipe

SpecParse == InitParse /\ [][NextParse]_vars

PlayPaths == PathsOver(PlaySegs)

\* Lines 271-287: one pass of the token loop of /api/play/. The chain has
\* no "software" keyword and no channel fallback.
PlayToken(tc, token) ==
    IF token = S_h264 THEN [tc EXCEPT !.codec = "h264"]
    ELSE IF token = S_hevc THEN [tc EXCEPT !.codec = "hevc"]
    ELSE IF token = S_av1 THEN [tc EXCEPT !.codec = "av1"]
    ELSE IF token = S_copy THEN [tc EXCEPT !.codec = "copy"]
    ELSE IF token = S_qsv THEN [tc EXCEPT !.backend = "qsv"]
    ELSE IF token = S_nvenc THEN [tc EXCEPT !.backend = "nvenc"]
    ELSE IF token = S_vaapi THEN [tc EXCEPT !.backend = "vaapi"]
    ELSE IF token = S_ac6 THEN [tc EXCEPT !.surround51 = 1]
    ELSE IF IsBitrate(token) THEN [tc EXCEPT !.bitrate_kbps = atoi(Tail(token))]
    ELSE tc

\* Lines 269-290: the token loop from token k on.
RECURSIVE PlayTokens(_, _, _)
PlayTokens(path, k, tc) ==
    IF k > Len(path) THEN tc
    ELSE PlayTokens(path, k + 1, PlayToken(tc, path[k]))

\* The file_path column of the recordings row with this id.
FilePath(id) == [proto |-> "file", localhost |-> FALSE, recording |-> id]

\* The NULL db_get_recording_path returns.
NullPath == [proto |-> "null", localhost |-> FALSE, recording |-> 0]

\* db.c lines 181-196: the file_path of the row with this id; NULL when the
\* statement cannot be prepared (ok = FALSE) or no row has the id.
db_get_recording_path(id, ok) ==
    IF ok /\ \E row \in db_recordings : row.id = id THEN FilePath(id) ELSE NullPath

\* The handler without the test of line 293.
PlayHandler_NoIdTest(r, path, ok) ==
    LET has_id == Len(path) > 0 /\ path[1][1] \in Digits
        id == IF has_id THEN atoi(path[1]) ELSE 0
        tc == PlayTokens(path, IF has_id THEN 2 ELSE 1, DefaultConfig)
        fpath == db_get_recording_path(id, ok)
    IN /\ req' = [kind |-> "play", r |-> r, path |-> path, core |-> EmptyUrl,
                  tc |-> tc, channel_id |-> <<>>, id |-> id,
                  found |-> (fpath # NullPath)]
       /\ IF fpath # NullPath
             THEN Invoke(r, "play", fpath)
             ELSE Respond(r, "play", 404)

\* Lines 248-313: GET /api/play/<path> on connection r. A first token that
\* starts with a digit is the id; id > 0 is looked up, a path found is
\* handed to transcode_source(client_socket, fpath, tc), none answers 404;
\* id <= 0 answers 400. get_core_base_url is not called.
PlayHandler(r, path, ok) ==
    LET has_id == Len(path) > 0 /\ path[1][1] \in Digits
        id == IF has_id THEN atoi(path[1]) ELSE 0
        tc == PlayTokens(path, IF has_id THEN 2 ELSE 1, DefaultConfig)
        fpath == IF id > 0 THEN db_get_recording_path(id, ok) ELSE NullPath
    IN /\ req' = [kind |-> "play", r |-> r, path |-> path, core |-> EmptyUrl,
                  tc |-> tc, channel_id |-> <<>>, id |-> id,
                  found |-> (fpath # NullPath)]
       /\ IF id > 0
             THEN IF fpath # NullPath
                     THEN Invoke(r, "play", fpath)
                     ELSE Respond(r, "play", 404)
             ELSE Respond(r, "play", 400)

\* A client has sent GET /api/play/<path>, before or after the backend was
\* discovered; recordings made earlier have their rows.
InitPlay ==
    /\ clock = 0
    /\ db_timers = {}
    /\ \E ids \in SUBSET RecIds :
          db_recordings = {[id |-> k, end_time |-> 0] : k \in ids}
    /\ procs = [p \in Pids |-> "none"]
    /\ termed = {}
    /\ active_recordings = [j \in Slots |-> EmptySlot]
    /\ pc = "poll"
    /\ now_ms = 0
    /\ timers = <<>>
    /\ i = 0
    /\ found = -1
    /\ stopped = {}
    /\ titles = DefaultTitles
    /\ active_mutex = "free"
    /\ calls = [c \in Callers |-> IdleCall]
    /\ requests = 0
    /\ events = <<>>
    /\ status = StatusIdle
    /\ core_url \in {EmptyUrl, LocalhostUrl}
    /\ copying = EmptyUrl
    /\ relay = [r \in Reqs |-> IdleRelay]
    /\ child = [p \in RelayPids |-> NoChild]
    /\ pipes = [r \in Reqs |-> <<>>]
    /\ sink = [r \in Reqs |-> "open"]
    /\ signals = {}
    /\ DelInit
    /\ ArgInit
    /\ \E path \in PlayPaths : req = [NoReq EXCEPT !.path = path]

\* The handler thread of connection r serves the request.
ApiPlay ==
    /\ \E r \in Reqs :
          /\ relay[r].pc = "idle"
          /\ \E ok \in BOOLEAN : PlayHandler(r, req.path, ok)
    /\ UNCHANGED <<core_url, copying, child, pipes, sink, signals>>
    /\ UNCHANGED <<schedVars, status, delVars, argVars>>

\* Playback requests and the start of the relays they invoke.
NextPlay ==
    \/ ApiPlay
    \/ RelayPipe
    \/ RelayFork
    \/ ChildExec

SpecPlay == InitPlay /\ [][NextPlay]_vars

-----------------------------------------------------------------------------
(* transcode.c: build_ffmpeg_args *)

\* transcode.h lines 22-37: TranscodeBackend and TranscodeCodec.
Backends == {"software", "qsv", "nvenc", "vaapi"}
Codecs == {"h264", "hevc", "av1", "copy"}

\* TranscodeConfig values (transcode.h:42-47) with the default bitrate; the
\* builder does not read bitrate_kbps.
Configs ==
    [backend : Backends, codec : Codecs, bitrate_kbps : {0}, surround51 : {0, 1}]

\* Input sources: a backend stream URL and a recording file path.
Inputs == {"http://127.0.0.1:18392/stream/15.1", "recordings/News-1000.mp4"}

\* transcode.c lines 34-36.
default_audio_bitrate == "128k"
default_aac_surround_bitrate == "384k"
default_surround_bitrate == "384k"

\* Lines 53-63: the device initialisation of vaapi and qsv.
HwInitArgs(config) ==
    IF config.backend = "vaapi"
       THEN <<"-init_hw_device", "vaapi=gpu:/dev/dri/renderD128",
              "-filter_hw_device", "gpu">>
    ELSE IF config.backend = "qsv"
       THEN <<"-init_hw_device", "qsv=hw", "-filter_hw_device", "hw">>
    ELSE <<>>

\* Lines 78-128: encoder selection, filters and quality of a non-copy codec.
EncoderArgs(config) ==
    IF config.backend = "software"
       THEN <<"-c:v",
              IF config.codec = "hevc" THEN "libx265"
              ELSE IF config.codec = "av1" THEN "libsvtav1" ELSE "libx264",
              "-preset", "fast", "-crf", "23">>
    ELSE IF config.backend = "nvenc"
       THEN <<"-c:v",
              IF config.codec = "hevc" THEN "hevc_nvenc"
              ELSE IF config.codec = "av1" THEN "av1_nvenc" ELSE "h264_nvenc",
              "-preset", "p4", "-rc", "constqp", "-qp", "23">>
    ELSE IF config.backend = "qsv"
       THEN <<"-vf", "yadif=0:-1:0,format=nv12,hwupload=extra_hw_frames=64,format=qsv",
              "-c:v",
              IF config.codec = "hevc" THEN "hevc_qsv"
              ELSE IF config.codec = "av1" THEN "av1_qsv" ELSE "h264_qsv",
              "-global_quality", "23">>
    ELSE IF config.backend = "vaapi"
       THEN <<"-vf", "format=nv12,hwupload",
              "-c:v",
              IF config.codec = "hevc" THEN "hevc_vaapi"
              ELSE IF config.codec = "av1" THEN "av1_vaapi" ELSE "h264_vaapi",
              "-qp", "23">>
    ELSE <<>>

\* Lines 130-167: the audio codec of a non-copy codec.
AudioArgs(config) ==
    IF config.codec = "av1"
       THEN IF config.surround51 # 0
               THEN <<"-af", "channelmap=channel_layout=5.1", "-c:a", "libopus",
                      "-mapping_family", "1", "-b:a", default_surround_bitrate>>
               ELSE <<"-ac", "2", "-c:a", "libopus", "-b:a", default_audio_bitrate>>
       ELSE IF config.surround51 # 0
               THEN <<"-af", "channelmap=channel_layout=5.1", "-c:a", "aac",
                      "-b:a", default_aac_surround_bitrate>>
               ELSE <<"-ac", "2", "-c:a", "aac", "-b:a", default_audio_bitrate>>

\* A format section that writes every codec as fragmented mp4.
FormatArgs_AlwaysMp4(config) ==
    <<"-f", "mp4", "-movflags",
      "frag_keyframe+empty_moov+default_base_moof", "pipe:1">>

\* Lines 170-182: the container and the output.
FormatArgs(config) ==
    IF config.codec = "av1"
       THEN <<"-f", "webm", "pipe:1">>
       ELSE <<"-f", "mp4", "-movflags",
              "frag_keyframe+empty_moov+default_base_moof", "pipe:1">>

\* A builder that takes the codec from the global app_config in place of
\* its config parameter.
build_ffmpeg_args_ReadsAppConfig(input_url, config) ==
    LET c == [config EXCEPT !.codec = app_config.codec]
    IN <<"ffmpeg">> \o HwInitArgs(c) \o <<"-re", "-i", input_url>>
       \o (IF c.codec = "copy" THEN <<"-c:v", "copy">>
           ELSE EncoderArgs(c) \o AudioArgs(c))
       \o FormatArgs(c)

\* A builder that adds the software encoder arguments to a stream copy.
build_ffmpeg_args_CopyEncodes(input_url, config) ==
    <<"ffmpeg">> \o HwInitArgs(config) \o <<"-re", "-i", input_url>>
    \o (IF config.codec = "copy"
           THEN <<"-c:v", "copy", "-preset", "fast", "-crf", "23">>
           ELSE EncoderArgs(config) \o AudioArgs(config))
    \o FormatArgs(config)

\* A builder that emits the device initialisation after the input.
build_ffmpeg_args_InitAfterInput(input_url, config) ==
    <<"ffmpeg", "-re", "-i", input_url>> \o HwInitArgs(config)
    \o (IF config.codec = "copy" THEN <<"-c:v", "copy">>
        ELSE EncoderArgs(config) \o AudioArgs(config))
    \o FormatArgs(config)

\* Lines 38-187: the argument vector argv[0 .. argc-1].
build_ffmpeg_args(input_url, config) ==
    <<"ffmpeg">> \o HwInitArgs(config) \o <<"-re", "-i", input_url>>
    \o (IF config.codec = "copy" THEN <<"-c:v", "copy">>
        ELSE EncoderArgs(config) \o AudioArgs(config))
    \o FormatArgs(config)

\* A call build_ffmpeg_args(input_source, config, &argc) in a forked child
\* of transcode_source (line 226).
BuildArgs ==
    /\ \E input \in Inputs : \E config \in Configs :
          LET call == [made |-> TRUE, again |-> call_first.made,
                       input |-> input, config |-> config,
                       argv |-> build_ffmpeg_args(input, config)]
          IN /\ call_last' = call
             /\ call_first' = IF call_first.made THEN call_first ELSE call
    /\ UNCHANGED app_config
    /\ UNCHANGED <<schedVars, status, relayVars, delVars, routeVars>>

\* web.c lines 159-185: POST /api/config stores the backend and codec
\* strings of the body in app_config.
ApiConfig ==
    /\ \E b \in {"software", "vaapi"} : \E c \in {"h264", "av1"} :
          app_config' = [backend |-> b, codec |-> c]
    /\ UNCHANGED <<call_first, call_last>>
    /\ UNCHANGED <<schedVars, status, relayVars, delVars, routeVars>>

NextArgs ==
    \/ BuildArgs
    \/ ApiConfig

SpecArgs == Init /\ [][NextArgs]_vars

-----------------------------------------------------------------------------
(* Properties of the scheduler *)

Occupied(ar) == {j \in DOMAIN ar : ar[j].pid # 0}

\* The slots the expiry branch of this cycle's scan handles.
Expired(j) ==
    active_recordings[j].pid # 0 /\ active_recordings[j].end_time <= now_ms

\* C1: in every reachable state at most MAX_ACTIVE_RECORDINGS slots of the
\* table are occupied (pid != 0), also when more timers are due than there
\* are slots.
C1_OccupiedAtMostN ==
    Cardinality(Occupied(active_recordings)) <= MAX_ACTIVE_RECORDINGS

\* More timers were due than slots: the table is full and one more encoder
\* runs outside it.
C1_Witness ==
    /\ \A j \in Slots : active_recordings[j].pid # 0
    /\ \E p \in Pids :
          /\ procs[p] = "running"
          /\ \A j \in Slots : active_recordings[j].pid # p

\* C2: no two occupied slots hold the same timer identity, and a pass of the
\* due-timer scan over a timer that has an occupied slot creates no Recording
\* entry, spawns no process and occupies no slot.
C2_OneSlotPerTimer ==
    [][ /\ \A j, k \in Slots :
             (j # k /\ active_recordings'[j].pid # 0 /\ active_recordings'[k].pid # 0)
                => active_recordings'[j].timer_id # active_recordings'[k].timer_id
        /\ (SchedDueTimer
              /\ \E j \in Slots : /\ active_recordings[j].pid # 0
                                  /\ active_recordings[j].timer_id = CurTimer.id)
             => UNCHANGED <<db_recordings, procs, active_recordings>> ]_vars

\* A later poll is looking at a due timer whose slot is occupied, while the
\* other slot is occupied by another timer.
C2_Witness ==
    /\ pc = "due"
    /\ now_ms > 0
    /\ \E j, k \in Slots :
          /\ active_recordings[j].pid # 0
          /\ active_recordings[j].timer_id = CurTimer.id
          /\ j # k
          /\ active_recordings[k].pid # 0

\* C3: a pass of the due-timer scan over a due timer that has no slot, taken
\* while every slot is occupied, creates no Recording entry and spawns no
\* process.
C3_SkipsWhenTableFull ==
    [][ (SchedDueTimer
           /\ ~ \E j \in Slots : /\ active_recordings[j].pid # 0
                                 /\ active_recordings[j].timer_id = CurTimer.id
           /\ FreeSlots(active_recordings) = {})
          => UNCHANGED <<db_recordings, procs>> ]_vars

\* C4: the slot scan of a cycle sends SIGTERM to, and reaps, the process of
\* every slot that is occupied with end_time <= now_ms, and leaves that slot
\* empty.
C4_ExpiredSlotStopped ==
    [][ SchedScan =>
          \A j \in Slots :
             Expired(j) =>
                /\ active_recordings[j].pid \in termed'
                /\ procs'[active_recordings[j].pid] = "reaped"
                /\ active_recordings'[j].pid = 0 ]_vars

\* A scan has ended with a slot emptied at its scheduled end: its process
\* got SIGTERM though no stop was ever requested.
C4_Witness ==
    /\ pc = "sleep"
    /\ found = -1
    /\ stopped = {}
    /\ titles = DefaultTitles
    /\ active_mutex = "free"
    /\ calls = [c \in Callers |-> IdleCall]
    /\ \E p \in termed : procs[p] = "reaped"
    /\ \E j \in Slots :
          /\ active_recordings[j].pid = 0
          /\ active_recordings[j].recording_id # 0
          /\ active_recordings[j].end_time <= now_ms

\* C5: after the slot scan has emptied a slot whose scheduled end has
\* passed, the timer that slot held is no longer in the timers table.
C5_ExpiryDeletesTimer ==
    [][ SchedScan =>
          \A j \in Slots :
             Expired(j) =>
                \A t \in db_timers' : t.id # active_recordings[j].timer_id ]_vars

\* C6: the slot scan empties (pid and timer_id cleared) every occupied slot
\* whose process has ended by itself before the scheduled end, reaps that
\* process, and leaves the slot's timer in the timers table as it was.
C6_CrashedSlotEmptied ==
    [][ SchedScan =>
          \A j \in Slots :
             (/\ active_recordings[j].pid # 0
              /\ now_ms < active_recordings[j].end_time
              /\ procs[active_recordings[j].pid] = "exited")
             => /\ active_recordings'[j].pid = 0
                /\ active_recordings'[j].timer_id = 0
                /\ procs'[active_recordings[j].pid] = "reaped"
                /\ {t \in db_timers' : t.id = active_recordings[j].timer_id}
                      = {t \in db_timers : t.id = active_recordings[j].timer_id} ]_vars

\* A scan has reaped a process that was never signalled, and a timer that
\* no slot holds is still in the table and still due.
C6_Witness ==
    /\ pc = "sleep"
    /\ \E p \in Pids : procs[p] = "reaped" /\ p \notin termed
    /\ \E t \in db_timers :
          /\ t.start_time <= now_ms
          /\ now_ms < t.end_time
          /\ \A j \in Slots : active_recordings[j].timer_id # t.id

\* C7: stop_recording(r) with no occupied slot holding r returns 0, signals
\* and reaps no process and leaves the slot table unchanged.
C7_StopNotFound ==
    [][ \A r \in 0 .. MaxRecId :
           (StopCall(r) /\ StopMatches(active_recordings, r) = {})
              => /\ found' = 0
                 /\ UNCHANGED <<active_recordings, procs, termed>> ]_vars

\* A stop has returned 0 while a slot, emptied earlier, still carries a
\* recording identity.
C7_Witness ==
    /\ found = 0
    /\ \E j \in Slots :
          /\ active_recordings[j].pid = 0
          /\ active_recordings[j].recording_id # 0

\* C8: stop_recording(r) with an occupied slot holding r sends SIGTERM to
\* that slot's process alone, reaps it, leaves that slot empty, changes no
\* other slot and returns 1.
C8_StopFound ==
    [][ \A r \in 0 .. MaxRecId :
           (StopCall(r) /\ StopMatches(active_recordings, r) # {})
              => \E j \in StopMatches(active_recordings, r) :
                    /\ termed' = termed \cup {active_recordings[j].pid}
                    /\ \A p \in Pids :
                          procs'[p] = IF p = active_recordings[j].pid
                                         THEN "reaped" ELSE procs[p]
                    /\ active_recordings'[j].pid = 0
                    /\ \A k \in Slots \ {j} :
                          active_recordings'[k] = active_recordings[k]
                    /\ found' = 1 ]_vars

\* A stop has returned 1: the stopped slot is empty with its timer identity
\* still in it, and the other slot is still occupied.
C8_Witness ==
    /\ found = 1
    /\ \E j, k \in Slots :
          /\ active_recordings[j].pid = 0
          /\ active_recordings[j].timer_id # 0
          /\ active_recordings[k].pid # 0

C10_ExpiryUpdatesEndTime ==
    [][ SchedScan =>
          \A j \in Slots :
             Expired(j) =>
                \A r \in db_recordings' :
                   r.id = active_recordings[j].recording_id => r.end_time # 0 ]_vars

\* The occupied slot with exactly k - 1 occupied slots before it.
KthOccupied(ar, k) ==
    CHOOSE j \in Occupied(ar) :
        Cardinality({m \in Occupied(ar) : m < j}) = k - 1

\* C11: get_active_recording_ids returns, for the slot table of the instant
\* of the call, *count = number of occupied slots and exactly their
\* recording ids (as many as *count, NULL when *count is 0);
\* get_active_recording_count returns the number of occupied slots of the
\* instant of its call; neither call changes a slot.
C11_AccessorsAreSnapshots ==
    [][((status.pc = "idle" /\ status'.pc = "ids") =>
          /\ status'.count = Cardinality(Occupied(active_recordings))
          /\ Len(status'.ids) = status'.count
          /\ \A k \in 1 .. Len(status'.ids) :
                status'.ids[k] =
                   active_recordings[KthOccupied(active_recordings, k)].recording_id
          /\ status'.is_null = (status'.count = 0)
          /\ active_recordings' = active_recordings)
       /\
       ((status.pc = "ids" /\ status'.pc = "idle") =>
          /\ status'.active = Cardinality(Occupied(active_recordings))
          /\ active_recordings' = active_recordings)]_vars

\* A status request has read a table that holds an occupied slot next to a
\* slot that was emptied but still carries its recording id.
C11_Witness ==
    /\ status.count > 0
    /\ status.active > 0
    /\ status.pc = "idle"
    /\ \E j \in Slots : active_recordings[j].pid = 0
                        /\ active_recordings[j].recording_id # 0

-----------------------------------------------------------------------------
(* Properties of transcode_source and of the dispatcher *)

\* The step at which request r's transcode_source returns.
Returns(r) == ~relay[r].returned /\ relay'[r].returned

\* C12: when transcode_source returns after a successful fork (after a sink
\* write failure, the end of the encoder's output or a read error), its
\* child has been sent SIGTERM by this call and has been waited for.
C12_ChildReapedOnReturn ==
    [][\A r \in Reqs :
          (Returns(r) /\ relay[r].pid # 0) =>
             /\ [by |-> r, pid |-> relay[r].pid] \in signals'
             /\ child'[relay[r].pid].state = "reaped"]_vars

\* Both relays have returned after forking, one after a failed sink write
\* and one without.
C12_Witness ==
    /\ relay[1].returned /\ relay[1].pid # 0 /\ relay[1].wfail
    /\ relay[2].returned /\ relay[2].pid # 0 /\ ~relay[2].wfail

\* C13: every failure to start the encoder (pipe, fork, exec of the
\* binary) makes transcode_source return -1.
C13_StartFailureReturnsError ==
    [][\A r \in Reqs :
          (Returns(r) /\ (relay[r].pid = 0 \/ child[relay[r].pid].exec = "failed"))
             => relay'[r].ret = -1]_vars

\* C14: when transcode_source has returned -1 it has written nothing to the
\* sink, neither response headers nor media data.
C14_ErrorMeansNothingSent ==
    \A r \in Reqs :
       (relay[r].returned /\ relay[r].ret = -1) =>
          (~relay[r].headers /\ relay[r].sent = <<>>)

\* A call returned -1 after fork failed, with the client still connected.
C14_Witness ==
    \E r \in Reqs :
       /\ relay[r].returned /\ relay[r].ret = -1
       /\ relay[r].fds = {"r", "w"}
       /\ sink[r] = "open"

\* C15: once a write of media data to the sink has failed, the relay reads
\* and writes no more, goes on to terminate and reap its child, and returns
\* 0.
C15_WriteFailureEndsRelay ==
    [][\A r \in Reqs :
          /\ relay'[r].wfail => relay'[r].pc \in {"kill", "wait", "done"}
          /\ relay[r].wfail =>
                /\ relay'[r].sent = relay[r].sent
                /\ relay'[r].buf = relay[r].buf
                /\ pipes'[r] = pipes[r] \/ relay'[r] = relay[r]
          /\ (relay[r].wfail /\ Returns(r)) =>
                /\ relay'[r].ret = 0
                /\ [by |-> r, pid |-> relay[r].pid] \in signals'
                /\ child'[relay[r].pid].state = "reaped"]_vars

\* A relay has returned after a failed write with encoder output left
\* unread in its pipe.
C15_Witness ==
    \E r \in Reqs :
       /\ relay[r].returned /\ relay[r].wfail
       /\ pipes[r] # <<>>

\* C16: a step of one request's relay leaves the other request's relay, pipe
\* and child as they are, and a relay sends SIGTERM to its own child only:
\* closing the sink of one request ends that request's child alone.
C16_RelaysAreIndependent ==
    [][\A r \in Reqs :
          relay'[r] # relay[r] =>
             /\ \A sg \in signals' \ signals :
                   sg.by = r /\ sg.pid = relay[r].pid
             /\ \A o \in Reqs \ {r} :
                   /\ relay'[o] = relay[o]
                   /\ pipes'[o] = pipes[o]
             /\ \A p \in RelayPids :
                   (p # relay[r].pid /\ p # relay'[r].pid) => child'[p] = child[p]]_vars

\* The sink of request 1 was closed while both encoders ran: request 1 has
\* returned and its child is reaped, request 2 still relays from its running
\* child, which no signal was sent to.
C16_Witness ==
    /\ sink[1] = "closed" /\ relay[1].returned /\ relay[1].wfail
    /\ child[relay[1].pid].state = "reaped"
    /\ relay[2].pc \in {"read", "write"}
    /\ relay[2].pid # relay[1].pid
    /\ child[relay[2].pid].state = "running"
    /\ \A sg \in signals : sg.pid # relay[2].pid
    /\ Len(relay[2].sent) > 0

\* No resolve event has delivered a backend address yet.
Undiscovered == core_url = EmptyUrl /\ copying = EmptyUrl

\* C17: a /stream/ or /transcode/ request that arrives while the backend is
\* undiscovered is answered 503 and invokes no relay, and a relay is only
\* ever invoked with a non-empty backend base URL.
C17_UndiscoveredIs503 ==
    [][\A r \in Reqs :
          (relay[r].pc = "idle" /\ relay'[r].pc # "idle") =>
             /\ Undiscovered =>
                   /\ relay'[r].resp = 503
                   /\ ~relay'[r].invoked
                   /\ relay'[r].pid = 0
             /\ relay'[r].invoked =>
                   /\ relay'[r].src # EmptyUrl
                   /\ relay'[r].src # NullUrl]_vars

\* One request was answered 503 before discovery and a later one invoked the
\* relay.
C17_Witness ==
    /\ relay[1].resp = 503 /\ ~relay[1].invoked
    /\ relay[2].invoked /\ relay[2].kind = "transcode"

-----------------------------------------------------------------------------
(* Properties of recording deletion *)

\* C18: a recording-deletion request removes the entry and its file
\* together or not at all: after a 200 both are gone, after a failed
\* persistence delete neither has been removed.
C18_EntryAndFileOneLifecycle ==
    [][del' # del =>
          IF del'.status = 200
             THEN /\ \A r \in db_recordings' : r.id # del'.id
                  /\ del'.id \notin files'
             ELSE /\ db_recordings' = db_recordings
                  /\ files' = files]_vars

-----------------------------------------------------------------------------
(* Properties of the poll cycle *)

\* The events of kind k in a sequence of events, in order.
OfKind(ev, kinds) == SelectSeq(ev, LAMBDA e : e.k \in kinds)

Failures == {"query_failed", "insert_failed", "fork_failed"}

\* C26: no failure in a poll cycle stops the loop. After a failed query the
\* cycle goes on to the slot scan; after a failed insert or a failed fork it
\* goes on to the next due timer, and to the slot scan after the last, every
\* timer of the query having had its pass; the slot scan handles every
\* occupied slot and leads to the sleep, the sleep to the next poll; and in
\* every state after a failure the loop's next step can be taken.
C26_FailuresDoNotStopLoop ==
    /\ [][(/\ (pc = "poll" /\ events' # events /\ OfKind(events', Failures) # <<>>)
                => pc' = "scan")
          /\
          (/\ (pc = "due" /\ events' # events /\ OfKind(events', Failures) # <<>>)
                => IF i + 1 < Len(timers)
                      THEN pc' = "due" /\ i' = i + 1 /\ timers' = timers
                      ELSE /\ pc' = "scan"
                           /\ Len(OfKind(events', {"timer"})) = Len(timers))
          /\
          (/\ (pc = "scan" /\ pc' # "scan")
                => /\ pc' = "sleep"
                   /\ Len(OfKind(events', {"expiry", "liveness"}))
                         = Cardinality({j \in Slots : active_recordings[j].pid # 0}))
          /\
          (/\ (pc = "sleep" /\ pc' # "sleep") => pc' = "poll")]_vars
    /\ [](OfKind(events, Failures) # <<>> =>
             /\ pc \in {"due", "scan", "sleep"}
             /\ pc = "due" => ENABLED SchedDueTimer
             /\ pc = "scan" => ENABLED SchedScan
             /\ (pc = "sleep" /\ clock < MaxTime) => ENABLED SchedSleep)

\* A cycle in which the insert failed for one timer and the fork for the
\* next went on to a third timer and handled an occupied slot.
C26_Witness ==
    /\ pc = "sleep"
    /\ \E a, b, c, d \in 1 .. Len(events) :
          /\ a < b /\ b < c /\ c < d
          /\ events[a].k = "insert_failed"
          /\ events[b].k = "fork_failed"
          /\ events[c].k = "timer"
          /\ events[d].k \in {"expiry", "liveness"}

\* The slots that hold process p.
Holding(ar, p) == {j \in Slots : ar[j].pid = p}

DueKinds == {"query_failed", "timer", "insert", "insert_failed", "fork",
             "fork_failed", "slot"}

\* C28: in one poll cycle the due-timer scan over all due timers comes
\* first, then the expiry scan over all slots, then the liveness scan over
\* all slots: no slot's liveness check comes before another slot's expiry
\* handling.
C28_ThreePhases ==
    \A a, b \in 1 .. Len(events) :
       a < b =>
          /\ events[b].k \in DueKinds => events[a].k \in DueKinds
          /\ events[b].k = "expiry" => events[a].k # "liveness"

\* C28 as amended: the due-timer scan over all due timers comes first, then
\* one pass over the slots in index order that takes, for each occupied
\* slot, the expiry branch when its end is reached and the liveness branch
\* otherwise.
C28_TwoPhases ==
    /\ [](\A a, b \in 1 .. Len(events) :
             a < b =>
                /\ events[b].k \in DueKinds => events[a].k \in DueKinds
                /\ (events[a].k \in {"expiry", "liveness"}
                    /\ events[b].k \in {"expiry", "liveness"})
                      => events[a].n < events[b].n)
    /\ [][(pc = "scan" /\ pc' = "sleep") =>
             /\ OfKind(events', DueKinds) = events
             /\ \A j \in Slots :
                   LET mine == SelectSeq(events', LAMBDA e : e.n = j
                                            /\ e.k \in {"expiry", "liveness"})
                   IN IF active_recordings[j].pid = 0 THEN mine = <<>>
                      ELSE IF now_ms >= active_recordings[j].end_time
                      THEN mine = <<Event("expiry", j)>>
                      ELSE mine = <<Event("liveness", j)>>]_vars

\* After the due-timer scan one pass checked the liveness of slot 0 and
\* then ended the expired recording of slot 1.
C28_Witness ==
    /\ pc = "sleep"
    /\ \E a, b, c \in 1 .. Len(events) :
          /\ a < b /\ b < c
          /\ events[a].k = "timer"
          /\ events[b] = Event("liveness", 0)
          /\ events[c] = Event("expiry", 1)

\* C29: for every recording the scheduler starts, the Recording entry is
\* inserted with end 0 before the encoder is forked; the slot that becomes
\* occupied holds the id of that entry and the timer's end instant; after a
\* failed insert no encoder is forked and no slot occupied for that timer
\* in that cycle.
C29_EntryBeforeProcess ==
    /\ [](\A k \in 1 .. Len(events) :
             /\ events[k].k \in {"fork", "fork_failed"} =>
                   k > 1 /\ events[k - 1].k = "insert"
             /\ events[k].k = "slot" =>
                   k > 2 /\ events[k - 1].k = "fork" /\ events[k - 2].k = "insert"
             /\ events[k].k = "insert_failed" =>
                   /\ events[k - 1] = Event("timer", events[k].n)
                   /\ k < Len(events) => events[k + 1].k \notin {"fork", "slot", "insert"}
                   /\ \A m \in 1 .. Len(events) :
                         (m # k - 1 /\ events[m].k = "timer") => events[m].n # events[k].n)
    /\ [][(pc = "due" /\ events' # events) =>
             LET forked == {p \in Pids : procs[p] = "none" /\ procs'[p] # "none"}
                 taken == {j \in Slots : active_recordings'[j] # active_recordings[j]}
                 rows == db_recordings' \ db_recordings
             IN /\ forked # {} =>
                      /\ Cardinality(forked) = 1
                      /\ Cardinality(rows) = 1
                      /\ \A row \in rows :
                            /\ row.end_time = 0
                            /\ \A old \in db_recordings : old.id # row.id
                /\ \A j \in taken :
                      /\ active_recordings[j].pid = 0
                      /\ \E row \in rows :
                            active_recordings'[j] =
                               [timer_id |-> CurTimer.id, recording_id |-> row.id,
                                pid |-> CHOOSE p \in forked : TRUE,
                                end_time |-> CurTimer.end_time]
                /\ rows = {} => (forked = {} /\ taken = {})]_vars

\* In one cycle the insert failed for one timer, and for another the entry
\* was inserted, the encoder forked and a slot filled with the entry's id.
C29_Witness ==
    /\ \E a, b \in 1 .. Len(events) :
          /\ events[a].k = "insert_failed"
          /\ events[b].k = "slot"
          /\ events[b - 2].k = "insert"
          /\ active_recordings[events[b].n].recording_id = events[b - 2].n
          /\ active_recordings[events[b].n].pid = events[b - 1].n
          /\ \E row \in db_recordings :
                row.id = events[b - 2].n /\ row.end_time = 0

-----------------------------------------------------------------------------
(* Properties of the relay's exit paths *)

\* C30: on every exit path of a relay invocation (success, sink error, pipe
\* failure, fork failure) both ends of the pipe are closed in the calling
\* process and any spawned child has been reaped when transcode_source
\* returns.
C30_ExitReleasesResources ==
    [][\A r \in Reqs :
          (~relay[r].returned /\ relay'[r].returned) =>
             /\ relay'[r].fds = {}
             /\ relay'[r].pid # 0 => child'[relay'[r].pid].state = "reaped"]_vars

-----------------------------------------------------------------------------
(* Properties of the path-segment parsers *)

BackendOf ==
    (S_software :> "software") @@ (S_qsv :> "qsv") @@ (S_nvenc :> "nvenc")
    @@ (S_vaapi :> "vaapi")

CodecOf ==
    (S_h264 :> "h264") @@ (S_hevc :> "hevc") @@ (S_av1 :> "av1") @@ (S_copy :> "copy")

\* Index of the last segment of the path that lies in kind, 0 if none does.
LastOf(path, kind) == Max({0} \cup {k \in 1 .. Len(path) : path[k] \in kind})

\* The segments "b<digits>": a lower-case b followed by digits only.
StrictBitrates ==
    {t \in TranscodeSegs :
        /\ Len(t) >= 2
        /\ t[1] = "b"
        /\ \A k \in 2 .. Len(t) : t[k] \in Digits}

\* The segments the handler takes for a bitrate: b or B followed by a digit.
LooseBitrates ==
    {t \in TranscodeSegs : Len(t) >= 2 /\ t[1] \in {"b", "B"} /\ t[2] \in Digits}

C25_PlaybackResolvesPath ==
    req.kind = "play" =>
       LET p == req.path
           positive == /\ Len(p) > 0
                       /\ p[1][1] \in Digits
                       /\ atoi(p[1]) > 0
           act == relay[req.r]
       IN /\ act.invoked =>
                /\ positive
                /\ \E row \in db_recordings : row.id = atoi(p[1])
                /\ act.src = FilePath(atoi(p[1]))
                /\ act.src \notin Urls \cup {TornUrl, EmptyUrl, NullUrl}
          /\ ~positive => act.resp = 400 /\ ~act.invoked
          /\ (positive /\ ~req.found) => act.resp = 404 /\ ~act.invoked
          /\ (positive /\ ~\E row \in db_recordings : row.id = atoi(p[1]))
                => act.resp = 404
          /\ ~act.invoked =>
                /\ act.pid = 0
                /\ act.fds = {}
                /\ \A q \in RelayPids : child[q].state # "none" => relay[3 - req.r].pid = q

\* Before discovery, /api/play/2/hevc found recording 2 and its relay forked
\* an encoder, and the other connection's request for the same path was
\* answered 404 after a failed lookup.
C25_Witness ==
    /\ req.kind = "play"
    /\ core_url = EmptyUrl
    /\ req.path = <<<<"2">>, S_hevc>>
    /\ \E r \in Reqs :
          /\ relay[r].invoked
          /\ relay[r].pid # 0
          /\ relay[3 - r].resp = 404

-----------------------------------------------------------------------------
(* Properties of the argument builder *)

\* The argument vector of the latest call holds the string a.
Has(a) == \E k \in 1 .. Len(call_last.argv) : call_last.argv[k] = a

\* ... holds a directly followed by b.
HasPair(a, b) ==
    \E k \in 1 .. (Len(call_last.argv) - 1) :
       call_last.argv[k] = a /\ call_last.argv[k + 1] = b

EncoderTable ==
    [software |-> [h264 |-> "libx264", hevc |-> "libx265", av1 |-> "libsvtav1"],
     nvenc |-> [h264 |-> "h264_nvenc", hevc |-> "hevc_nvenc", av1 |-> "av1_nvenc"],
     qsv |-> [h264 |-> "h264_qsv", hevc |-> "hevc_qsv", av1 |-> "av1_qsv"],
     vaapi |-> [h264 |-> "h264_vaapi", hevc |-> "hevc_vaapi", av1 |-> "av1_vaapi"]]

AllEncoders == {EncoderTable[b][c] : b \in Backends, c \in {"h264", "hevc", "av1"}}

QsvFilter == "yadif=0:-1:0,format=nv12,hwupload=extra_hw_frames=64,format=qsv"
VaapiFilter == "format=nv12,hwupload"

\* C20: for codec copy the vector holds "-c:v copy" and no encoder name,
\* video filter, preset or quality argument, on every backend; for every
\* other codec it holds the encoder of the (backend, codec) table and that
\* backend's knobs: software preset fast, crf 23; nvenc preset p4, rc
\* constqp, qp 23; qsv its upload filter and global_quality 23; vaapi its
\* own upload filter and qp 23.
C20_EncoderTable ==
    call_last.made =>
       LET b == call_last.config.backend
           c == call_last.config.codec
       IN IF c = "copy"
             THEN /\ HasPair("-c:v", "copy")
                  /\ \A e \in AllEncoders : ~Has(e)
                  /\ \A a \in {"-vf", "-preset", "-crf", "-qp", "-rc",
                               "-global_quality"} : ~Has(a)
             ELSE /\ HasPair("-c:v", EncoderTable[b][c])
                  /\ \A e \in AllEncoders \ {EncoderTable[b][c]} : ~Has(e)
                  /\ b = "software" =>
                        /\ HasPair("-preset", "fast") /\ HasPair("-crf", "23")
                        /\ \A a \in {"-vf", "-qp", "-rc", "-global_quality"} : ~Has(a)
                  /\ b = "nvenc" =>
                        /\ HasPair("-preset", "p4") /\ HasPair("-rc", "constqp")
                        /\ HasPair("-qp", "23")
                        /\ \A a \in {"-vf", "-crf", "-global_quality"} : ~Has(a)
                  /\ b = "qsv" =>
                        /\ HasPair("-vf", QsvFilter) /\ HasPair("-global_quality", "23")
                        /\ \A a \in {"-preset", "-crf", "-qp", "-rc"} : ~Has(a)
                  /\ b = "vaapi" =>
                        /\ HasPair("-vf", VaapiFilter) /\ HasPair("-qp", "23")
                        /\ VaapiFilter # QsvFilter
                        /\ \A a \in {"-preset", "-crf", "-rc", "-global_quality"} : ~Has(a)

\* A stream copy was built for a hardware backend.
C20_Witness ==
    /\ call_last.made
    /\ call_last.config.codec = "copy"
    /\ call_last.config.backend = "qsv"
    /\ Has("-init_hw_device")

Remap51 == "channelmap=channel_layout=5.1"

\* C21: for every TranscodeConfig, copy included, the vector names the
\* audio encoder (libopus for av1, aac otherwise) and, with the surround
\* flag set, the 5.1 channel-layout remap filter and the 384k bitrate, with
\* it clear, the downmix to 2 channels and the 128k bitrate.
C21_AudioRule ==
    call_last.made =>
       /\ HasPair("-c:a", IF call_last.config.codec = "av1" THEN "libopus" ELSE "aac")
       /\ IF call_last.config.surround51 # 0
             THEN HasPair("-af", Remap51) /\ HasPair("-b:a", "384k")
             ELSE HasPair("-ac", "2") /\ HasPair("-b:a", "128k")

\* C22: the vector's output section is "-f webm" for av1 and "-f mp4" with
\* the movflags frag_keyframe+empty_moov+default_base_moof for every other
\* codec, and its last argument is pipe:1, never the input or another path.
C22_OutputSection ==
    call_last.made =>
       LET argv == call_last.argv
           n == Len(argv)
       IN /\ argv[n] = "pipe:1"
          /\ argv[n] \notin Inputs
          /\ IF call_last.config.codec = "av1"
                THEN /\ argv[n - 2] = "-f" /\ argv[n - 1] = "webm"
                     /\ ~Has("-movflags") /\ ~Has("mp4")
                ELSE /\ argv[n - 4] = "-f" /\ argv[n - 3] = "mp4"
                     /\ argv[n - 2] = "-movflags"
                     /\ argv[n - 1] = "frag_keyframe+empty_moov+default_base_moof"
                     /\ ~Has("webm")

\* An av1 vector and a copy vector were built from a recording file.
C22_Witness ==
    /\ call_first.made
    /\ call_last.again
    /\ call_first.config.codec = "av1"
    /\ call_last.config.codec = "copy"
    /\ call_last.input = "recordings/News-1000.mp4"

\* Index of the first occurrence of a in the latest vector, 0 if absent.
Pos(a) ==
    IF Has(a)
       THEN Min({k \in 1 .. Len(call_last.argv) : call_last.argv[k] = a})
       ELSE 0

\* a and b both occur, the first a before the first b.
Before(a, b) == Has(a) /\ Has(b) /\ Pos(a) < Pos(b)

\* The quality knob of a backend.
QualityKnob == [software |-> "-crf", nvenc |-> "-qp", qsv |-> "-global_quality",
                vaapi |-> "-qp"]

\* C23: in every vector the device-initialisation pair occurs for qsv and
\* vaapi only and before the input argument; after the input come, for a
\* non-copy codec, the backend's video filter (if any), the encoder name,
\* the quality knob, the audio remap or downmix, the audio bitrate, then
\* the container and the sink. For vaapi, hevc, surround: the vaapi upload
\* filter, hevc_vaapi, qp 23, the 5.1 remap filter, the 384k aac bitrate.
C23_ArgumentOrder ==
    call_last.made =>
       LET b == call_last.config.backend
           c == call_last.config.codec
           s == call_last.config.surround51 # 0
       IN /\ Has("-init_hw_device") <=> b \in {"qsv", "vaapi"}
          /\ b \in {"qsv", "vaapi"} =>
                /\ Before("-init_hw_device", "-filter_hw_device")
                /\ Before("-filter_hw_device", "-i")
          /\ Before("-i", call_last.input)
          /\ Before(call_last.input, "-c:v")
          /\ Before("-f", "pipe:1")
          /\ c = "copy" => Before("-c:v", "-f")
          /\ c # "copy" =>
                /\ Has("-vf") <=> b \in {"qsv", "vaapi"}
                /\ Has("-vf") => Before(call_last.input, "-vf") /\ Before("-vf", "-c:v")
                /\ Before("-c:v", EncoderTable[b][c])
                /\ Before(EncoderTable[b][c], QualityKnob[b])
                /\ Before(QualityKnob[b], IF s THEN "-af" ELSE "-ac")
                /\ Before(IF s THEN "-af" ELSE "-ac", "-b:a")
                /\ Before("-b:a", "-f")
          /\ (b = "vaapi" /\ c = "hevc" /\ s) =>
                /\ Before(VaapiFilter, "hevc_vaapi")
                /\ Before("hevc_vaapi", "-qp")
                /\ HasPair("-qp", "23")
                /\ Before("-qp", Remap51)
                /\ Before(Remap51, "aac")
                /\ Before("aac", "384k")
                /\ HasPair("-b:a", "384k")

\* The vector of backend vaapi, codec hevc, surround set was built.
C23_Witness ==
    /\ call_last.made
    /\ call_last.config.backend = "vaapi"
    /\ call_last.config.codec = "hevc"
    /\ call_last.config.surround51 = 1
    /\ Before(VaapiFilter, "384k")

-----------------------------------------------------------------------------
(* Properties of crashes, stops and restarts *)

\* Slot j holds an encoder that ended before its end instant: the slot scan
\* takes the liveness branch and finds it dead.
Crashed(j) ==
    /\ active_recordings[j].pid # 0
    /\ now_ms < active_recordings[j].end_time
    /\ procs[active_recordings[j].pid] # "running"

\* C31: when the slot scan detects a crash it empties the slot and leaves the
\* timer in place, no slot names the timer any more, and a due-timer pass over
\* a timer no slot names starts it with a new Recording entry and a new
\* process (unless the insert or the fork fails); a timer whose encoder keeps
\* ending early is so restarted at every poll until its end instant.
C31_CrashedTimerRestarts ==
    [][/\ (pc = "scan" /\ pc' = "sleep") =>
             \A j \in Slots :
                Crashed(j) =>
                   /\ active_recordings'[j].pid = 0
                   /\ procs'[active_recordings[j].pid] = "reaped"
                   /\ ~IsActive(active_recordings', active_recordings[j].timer_id)
                   /\ \A t \in db_timers :
                         t.id = active_recordings[j].timer_id => t \in db_timers'
       /\ (pc = "due" /\ events' # events /\ ~IsActive(active_recordings, CurTimer.id)) =>
             \/ /\ events'[Len(events')].k \in {"insert_failed", "fork_failed"}
                /\ procs' = procs
             \/ /\ \E row \in db_recordings' \ db_recordings :
                      /\ row.end_time = 0
                      /\ \A old \in db_recordings : old.id < row.id
                /\ \E p \in Pids : procs[p] = "none" /\ procs'[p] = "running"]_vars

\* The one timer added has been started twice: its first encoder crashed and
\* was reaped, the second runs in a slot under a second Recording entry.
C31_Witness ==
    /\ requests = 1
    /\ Cardinality(db_timers) = 1
    /\ Cardinality(db_recordings) = 2
    /\ \E p \in Pids : procs[p] = "reaped"
    /\ \E j \in Slots :
          /\ active_recordings[j].pid # 0
          /\ procs[active_recordings[j].pid] = "running"
          /\ active_recordings[j].recording_id = 2
          /\ \E t \in db_timers : t.id = active_recordings[j].timer_id

\* A child the scheduler forked and nobody has waited for.
Unreaped(p) == p \in Pids /\ procs[p] \in {"running", "exited"}

\* C34: the pid of an occupied slot always denotes a forked child that has
\* not been reaped; every SIGTERM the scheduler or stop_recording sends goes
\* to such a pid, held by an occupied slot, never to pid 0 or to a pid
\* already waited for; and the step that reaps a child empties its slot.
C34_SignalsTargetUnreapedChildren ==
    /\ [](\A j \in Slots :
             active_recordings[j].pid # 0 => Unreaped(active_recordings[j].pid))
    /\ [][/\ \A p \in termed' \ termed :
                /\ Unreaped(p)
                /\ \E j \in Slots : active_recordings[j].pid = p
          /\ \A p \in Pids :
                (procs[p] # "reaped" /\ procs'[p] = "reaped") =>
                   \E j \in Slots :
                      /\ active_recordings[j].pid = p
                      /\ active_recordings'[j].pid = 0]_vars

\* Two children have been sent SIGTERM and reaped, one of them by a manual
\* stop, while another recording runs in an occupied slot.
C34_Witness ==
    /\ found = 1
    /\ \E p, q \in termed : p # q /\ procs[p] = "reaped" /\ procs[q] = "reaped"
    /\ \E j \in Slots :
          /\ active_recordings[j].pid # 0
          /\ procs[active_recordings[j].pid] = "running"

\* C35: after a manual stop of the recording of timer T the scheduler starts
\* no new recording for T at a later poll while T is still due, whatever
\* other timers have become due and taken slots in between: a due-timer pass
\* over a stopped timer inserts no Recording entry and forks no process.
C35_StoppedTimerNotRestarted ==
    [][(/\ pc = "due"
        /\ events' # events
        /\ CurTimer.id \in stopped
        /\ \E t \in db_timers : t.id = CurTimer.id /\ t.end_time = CurTimer.end_time)
          => (procs' = procs /\ db_recordings' = db_recordings)]_vars

-----------------------------------------------------------------------------
(* Properties of the stored backend address *)

\* The priority classes of discovery.c lines 13-16, 0 for "nothing stored".
Class(u) ==
    IF u = EmptyUrl THEN 0
    ELSE IF u.proto = "v6" THEN 1
    ELSE IF u.localhost THEN 3
    ELSE 2

\* What core_url holds after a resolve event for u.
Stored(u) == IF TakeIt(core_url, u) THEN u ELSE core_url

\* C32: the stored backend address follows IPv4 localhost > other IPv4 >
\* IPv6: its class never decreases, after a resolve event it is of the higher
\* class of the address it held and the address resolved (so of the highest
\* class resolved so far), and once an address is stored get_core_base_url
\* never returns NULL again.
C32_PriorityFollowed ==
    /\ [](\A u \in Urls : Class(Stored(u)) = Max({Class(core_url), Class(u)}))
    /\ [][Class(core_url') >= Class(core_url)]_vars
    /\ [][core_url # EmptyUrl => core_url' # EmptyUrl]_vars
    /\ [](core_url # EmptyUrl => NullUrl \notin get_core_base_url)

\* An IPv4 address of another host is stored and the localhost address is
\* being copied over it.
C32_Witness ==
    /\ core_url = [proto |-> "v4", localhost |-> FALSE]
    /\ copying = LocalhostUrl
    /\ NullUrl \notin get_core_base_url

-----------------------------------------------------------------------------
(* Properties of the relayed byte stream *)

\* The bytes of the encoder's first k chunks, in the order it writes them.
RECURSIVE Stream(_)
Stream(k) == IF k = 0 THEN <<>> ELSE Stream(k - 1) \o Chunk(k)

\* C33: the bytes the relay has written to the sink after the response
\* headers are a prefix of its encoder's standard output, in order, with no
\* byte dropped or duplicated, whatever each write call returned (a short
\* count included).
C33_SinkGetsPrefix ==
    \A r \in Reqs :
       /\ Len(relay[r].sent) <= Len(Stream(MaxChunks))
       /\ relay[r].sent = SubSeq(Stream(MaxChunks), 1, Len(relay[r].sent))

-----------------------------------------------------------------------------
(* Properties of the /api/status response *)

\* C36: in every /api/status response the active_recordings count equals the
\* number of identities in the active_ids list, however the request
\* interleaves with the scheduler loop and with stop_recording calls.
C36_StatusCountMatchesIds ==
    status.pc = "idle" => status.active = Len(status.ids)

-----------------------------------------------------------------------------
(* Properties of the recordings the slots refer to *)

\* C37: every recording identity held by an occupied slot refers to a
\* Recording entry that exists in persistence, after any sequence of
\* scheduler cycles, manual stops and recording-deletion requests.
C37_ActiveRecordingHasEntry ==
    \A j \in Slots :
       active_recordings[j].pid # 0 =>
          \E row \in db_recordings : row.id = active_recordings[j].recording_id

\* The index in the cycle's log of the start that filled a slot which the
\* process it forked still occupies.
StartsHolding ==
    {b \in 1 .. Len(events) :
        /\ events[b].k = "slot"
        /\ active_recordings[events[b].n].pid = events[b - 1].n}

\* The output file of the start logged at index b: the title of its timer
\* and the now_ms of the cycle.
PathOfStart(b) == Filename(titles[events[b - 3].n], now_ms)

\* C38: the output paths of two simultaneously occupied slots are different,
\* also when two timers whose titles sanitize to the same string become due
\* in the same poll cycle.
C38_DistinctOutputPaths ==
    \A a, b \in StartsHolding : a # b => PathOfStart(a) # PathOfStart(b)

-----------------------------------------------------------------------------
(* Properties of the end of a relayed stream *)

\* C39: when a relay's own encoder child has ended and the relay has read
\* all the child wrote, its next read observes end-of-stream, whatever other
\* relays have been started meanwhile and whether their encoders still run.
C39_OwnChildExitEndsStream ==
    \A r \in Reqs :
       (/\ relay[r].pc = "read"
        /\ pipes[r] = <<>>
        /\ child[relay[r].pid].state = "exited"
        /\ child[relay[r].pid].exec = "ok")
          => WriteEndsClosed(r)

-----------------------------------------------------------------------------
(* Properties of the waits under active_mutex *)

\* The holder of active_mutex is inside a waitpid for a child that has not
\* ended.
Stuck ==
    \/ pc = "wait" /\ procs[active_recordings[i].pid] = "running"
    \/ \E c \in Callers :
          calls[c].pc = "wait" /\ procs[StopPid(calls[c].arg)] = "running"

\* C40: with every process that is sent SIGTERM ending, every stop, count and
\* ids call that has reached the mutex returns and every poll cycle reaches
\* its sleep, although the mutex is held across the waits; and while a
\* signalled process has not ended, the loop cannot pass its next lock, no
\* call can get the mutex or return, and this stays so until that process
\* ends.
C40_WaitsEndWhenChildrenEnd ==
    /\ \A c \in Callers : (calls[c].pc = "lock") ~> (calls[c].pc = "done")
    /\ (pc = "poll") ~> (pc = "sleep")
    /\ [](Stuck => ~ENABLED (WaitsDueTimer \/ WaitsScanLock \/ WaitsScanSlot
                             \/ WaitsScanWait \/ WaitsCallLock \/ WaitsStopWait))
    /\ [][(Stuck /\ procs' = procs) => Stuck']_vars

\* A stop call holds the mutex waiting for its child while the loop stands
\* before the lock of its slot scan and the other thread's call before its
\* own.
C40_Witness ==
    /\ pc = "scan"
    /\ \E c, d \in Callers :
          /\ calls[c].pc = "wait"
          /\ active_mutex = c
          /\ procs[StopPid(calls[c].arg)] = "running"
          /\ calls[d].pc = "lock"

====
